---- MODULE Spec2Model ----
(***************************************************************************)
(* Model of the zelle-style server: the in-memory ledger of               *)
(* routes/transactions.js, the account and verification routes of        *)
(* routes/auth.js and the EmailService of services/emailService.js        *)
(* (retrying delivery, delivery logs, failed-email store, verification    *)
(* codes, issuance rate limit).                                            *)
(*                                                                         *)
(* Every HTTP handler is an async function: it runs without interruption  *)
(* up to its next await, so one action models one run-to-completion       *)
(* segment.  A request that is suspended at an await is a task.           *)
(***************************************************************************)
EXTENDS Integers, Sequences, FiniteSets, TLC

(***************************************************************************)
(* Bounds of the model.                                                    *)
(***************************************************************************)
MaxTasks == 3          \* slots for requests suspended at an await

(***************************************************************************)
(* Program constants.                                                      *)
(***************************************************************************)
HourMs == 3600000      \* 60 * 60 * 1000
CodeTtlMs == 600000    \* 10 * 60 * 1000
RateMax == 3
MaxCodeAttempts == 3
DefaultMaxRetries == 3
BackoffUnitMs == 2000

Emails == {"a@x", "b@x", "c@x"}
NoEmail == ""          \* a missing recipientEmail / email field (falsy)

(***************************************************************************)
(* JavaScript numbers.  The ledger computes with JS numbers, and the      *)
(* request body is any JSON value, so NaN is a value a balance can take.  *)
(* The model keeps whole numbers (exact in a double) and NaN.             *)
(***************************************************************************)
Num(n) == [nan |-> FALSE, v |-> n]
NaN == [nan |-> TRUE, v |-> 0]

JsLt(a, b) == ~a.nan /\ ~b.nan /\ a.v < b.v
JsLe(a, b) == ~a.nan /\ ~b.nan /\ a.v <= b.v
JsGe(a, b) == ~a.nan /\ ~b.nan /\ a.v >= b.v
JsSub(a, b) == IF a.nan \/ b.nan THEN NaN ELSE Num(a.v - b.v)
JsAdd(a, b) == IF a.nan \/ b.nan THEN NaN ELSE Num(a.v + b.v)

(***************************************************************************)
(* JSON values of the `amount` field of a request body.                    *)
(*   number n          [t |-> "number", v |-> n]                           *)
(*   string            [t |-> "string", pre |-> <<n>> or <<>>, junk]       *)
(*                     pre: the longest numeric prefix, junk: whether      *)
(*                     other characters follow it ("2abc", "abc", "2", "") *)
(*   absent            [t |-> "undefined"]                                 *)
(***************************************************************************)
JNum(n) == [t |-> "number", v |-> n]
JStr(pre, junk) == [t |-> "string", pre |-> pre, junk |-> junk]
JUndef == [t |-> "undefined"]

\* !amount
Falsy(x) ==
    CASE x.t = "number" -> x.v = 0
      [] x.t = "string" -> x.pre = <<>> /\ ~x.junk
      [] OTHER -> TRUE

\* ToNumber, the coercion of `amount <= 0` and `sender.balance < amount`
ToNumber(x) ==
    CASE x.t = "number" -> Num(x.v)
      [] x.t = "string" -> IF x.junk THEN NaN
                           ELSE IF x.pre = <<>> THEN Num(0) ELSE Num(x.pre[1])
      [] OTHER -> NaN

\* parseFloat(amount): the longest numeric prefix, NaN when there is none
ParseFloat(x) ==
    CASE x.t = "number" -> Num(x.v)
      [] x.t = "string" -> IF x.pre = <<>> THEN NaN ELSE Num(x.pre[1])
      [] OTHER -> NaN

\* recipientEmail.split('@')[0]
LocalPart(e) == CASE e = "a@x" -> "a" [] e = "b@x" -> "b" [] e = "c@x" -> "c" [] OTHER -> e

(***************************************************************************)
(* State.                                                                  *)
(***************************************************************************)
VARIABLES
    users,              \* auth.js `users`: email -> account
    transactions,       \* transactions.js `transactions`, in insertion order
    verificationCodes,  \* EmailService.verificationCodes: email -> record
    rateLimits,         \* EmailService.rateLimits: key -> timestamps
    failedEmails,       \* EmailService.failedEmails: emailId -> entry
    emailLogs,          \* EmailService.emailLogs
    nextEmailId,        \* the next generated emailId
    now,                \* Date.now()
    tasks,              \* requests suspended at an await
    resp                \* the response the last step wrote, NoResp if none

vars == <<users, transactions, verificationCodes, rateLimits, failedEmails,
          emailLogs, nextEmailId, now, tasks, resp>>

Idle == [op |-> "idle"]
NoResp == [op |-> "none"]

TaskIds == 1..MaxTasks
Busy == {i \in TaskIds : tasks[i].op # "idle"}
HasFreeTask == \E i \in TaskIds : tasks[i].op = "idle"
FreeTask == CHOOSE i \in TaskIds : tasks[i].op = "idle" /\ \A j \in 1..(i - 1) : tasks[j].op # "idle"

Init ==
    /\ users = << >>
    /\ transactions = << >>
    /\ verificationCodes = << >>
    /\ rateLimits = << >>
    /\ failedEmails = << >>
    /\ emailLogs = << >>
    /\ nextEmailId = 1
    /\ now = 0
    /\ tasks = [i \in TaskIds |-> Idle]
    /\ resp = NoResp

\* Map.set / Map.delete on a function with a dynamic domain
MapSet(m, k, v) == [x \in (DOMAIN m) \cup {k} |-> IF x = k THEN v ELSE m[x]]
MapDelete(m, k) == [x \in (DOMAIN m) \ {k} |-> m[x]]


(***************************************************************************)
(* Notification delivery: EmailService.sendEmailWithRetry.                 *)
(***************************************************************************)

\* Math.pow(2, attempt - 2) * 2000, the wait before attempt 2, 3, ...
BackoffDelay(attempt) == (2 ^ (attempt - 2)) * BackoffUnitMs

\* error.message || 'Unknown error'
ErrorMsg(m) == IF m = "" THEN "Unknown error" ELSE m

\* what sgMail.send can throw
MailerErrors == {"ETIMEDOUT"}

\* lines 14-23: the log entry of a new cycle
NewLogEntry(id, emailData, type) ==
    [id |-> id, to |-> emailData.to, type |-> type, timestamp |-> now,
     attempts |-> 0, success |-> FALSE, errors |-> << >>]

\* lines 14-35: a cycle from its start to the await of the first send
BeginDelivery(emailData, type, maxRetries, id) ==
    [emailData |-> emailData, type |-> type, maxRetries |-> maxRetries,
     attempt |-> 1, phase |-> "sending", wakeAt |-> 0,
     logEntry |-> [NewLogEntry(id, emailData, type) EXCEPT !.attempts = 1]]

\* a variant of SuccessLog that leaves success as the cycle started it
SuccessLogUnmarked(d) ==
    ("completedAt" :> now) @@ d.logEntry

\* lines 37-38: the log entry of a send that returned
SuccessLog(d) ==
    ("completedAt" :> now) @@ [d.logEntry EXCEPT !.success = TRUE]

\* a variant of ErrorLog that numbers the attempts from 0
ErrorLogZeroBased(d, m) ==
    [d.logEntry EXCEPT !.errors =
        Append(@, [attempt |-> d.attempt - 1, error |-> ErrorMsg(m), timestamp |-> now])]

\* lines 49-54: the log entry with the error of a send that threw
ErrorLog(d, m) ==
    [d.logEntry EXCEPT !.errors =
        Append(@, [attempt |-> d.attempt, error |-> ErrorMsg(m), timestamp |-> now])]

\* lines 60-61: the log entry of the last failed attempt
FailureLog(d, m) ==
    ("failedAt" :> now) @@ [ErrorLog(d, m) EXCEPT !.success = FALSE]

\* a variant of FailedEntry that stores the log entry without the payload
FailedEntryLogOnly(d, m) == FailureLog(d, m)

\* line 63: { ...logEntry, emailData }
FailedEntry(d, m) == ("emailData" :> d.emailData) @@ FailureLog(d, m)

\* a variant of IsLastAttempt that gives up one attempt early
IsLastAttemptEarly(d) == d.attempt + 1 >= d.maxRetries

\* line 58: attempt === maxRetries
IsLastAttempt(d) == d.attempt = d.maxRetries

\* line 46: the value a cycle returns
DeliveryResult(d) == [success |-> TRUE, emailId |-> d.logEntry.id, attempts |-> d.attempt]

\* line 66: the error a cycle throws
DeliveryError(d, m) ==
    [msg |-> "Failed to send email", attempts |-> d.maxRetries, cause |-> ErrorMsg(m)]

\* lines 25-33, after a failed attempt that was not the last: the next
\* attempt is counted and the cycle waits for its backoff delay
NextAttempt(d, m) ==
    [d EXCEPT !.attempt = d.attempt + 1,
              !.logEntry = [ErrorLog(d, m) EXCEPT !.attempts = d.attempt + 1],
              !.phase = "backoff",
              !.wakeAt = now + BackoffDelay(d.attempt + 1)]

\* the message builders of sendVerificationCode, sendWelcomeEmail and
\* sendTransactionReceipt (lines 139-145, 170-176, 190-196)
VerificationMsg(email, code) == [to |-> email, kind |-> "verification", data |-> code]
WelcomeMsg(email, name) == [to |-> email, kind |-> "welcome", data |-> name]
ReceiptMsg(email, tx, type) ==
    [to |-> email, kind |-> "receipt", data |-> [id |-> tx.id, type |-> type, amount |-> tx.amount]]

\* delivery cycles not yet started that suspended requests will start
ReservedIds ==
    Cardinality({i \in Busy :
        \/ tasks[i].op = "register" /\ tasks[i].stage = "hash"
        \/ tasks[i].op = "send" /\ tasks[i].stage = "sender" /\ tasks[i].hasRecipient})

Delivering(i) == tasks[i].op # "idle" /\ tasks[i].stage # "hash"

(***************************************************************************)
(* The ledger: POST /api/transactions/send.                                *)
(***************************************************************************)
\* an error response; a thrown Error is [msg |-> its message, ...]
Thrown(msg) == [msg |-> msg]
Fail(op, status, error) == [op |-> op, status |-> status, error |-> error]
Err(op, status, msg) == Fail(op, status, Thrown(msg))
RespError(r) == IF "error" \in DOMAIN r THEN r.error.msg ELSE ""

\* line 19: !recipientEmail || !amount
MissingSendFields(recipientEmail, amount) == recipientEmail = NoEmail \/ Falsy(amount)

\* line 23: amount <= 0
NonPositive(amount) == JsLe(ToNumber(amount), Num(0))

\* line 34: !sender.verified
NotVerified(account) == ~account.verified

\* a variant of InsufficientFunds that lets every amount pass
InsufficientFundsNever(account, amount) == FALSE

\* line 42: sender.balance < amount
InsufficientFunds(account, amount) == JsLt(account.balance, ToNumber(amount))

\* a variant of SendReject that checks the balance before the verified flag
SendRejectFundsFirst(senderEmail, recipientEmail, amount) ==
    CASE MissingSendFields(recipientEmail, amount) ->
            Err("send", 400, "Recipient email and amount are required")
      [] NonPositive(amount) ->
            Err("send", 400, "Amount must be greater than 0")
      [] senderEmail \notin DOMAIN users ->
            Err("send", 404, "Sender not found")
      [] InsufficientFunds(users[senderEmail], amount) ->
            Err("send", 400, "Insufficient funds")
      [] NotVerified(users[senderEmail]) ->
            Err("send", 403, "EMAIL_NOT_VERIFIED")
      [] OTHER -> NoResp

\* lines 18-44: the response of the first check that rejects the request,
\* NoResp when none does
SendReject(senderEmail, recipientEmail, amount) ==
    CASE MissingSendFields(recipientEmail, amount) ->
            Err("send", 400, "Recipient email and amount are required")
      [] NonPositive(amount) ->
            Err("send", 400, "Amount must be greater than 0")
      [] senderEmail \notin DOMAIN users ->
            Err("send", 404, "Sender not found")
      [] NotVerified(users[senderEmail]) ->
            Err("send", 403, "EMAIL_NOT_VERIFIED")
      [] InsufficientFunds(users[senderEmail], amount) ->
            Err("send", 400, "Insufficient funds")
      [] OTHER -> NoResp

\* line 48: the recipient's display name
RecipientName(recipientEmail) ==
    IF recipientEmail \in DOMAIN users THEN users[recipientEmail].name
    ELSE LocalPart(recipientEmail)

\* lines 51-65: the transaction record
NewTransaction(senderEmail, recipientEmail, amount) ==
    [id |-> Len(transactions) + 1,
     senderEmail |-> senderEmail, senderName |-> users[senderEmail].name,
     recipientEmail |-> recipientEmail, recipientName |-> RecipientName(recipientEmail),
     amount |-> ParseFloat(amount), note |-> "", timestamp |-> now,
     status |-> "completed"]

\* a variant of Debit with the sign of the update wrong
DebitAdding(accounts, senderEmail, amount) ==
    [accounts EXCEPT ![senderEmail].balance = JsAdd(@, ParseFloat(amount))]

\* lines 67-69: sender.balance -= parseFloat(amount)
Debit(accounts, senderEmail, amount) ==
    [accounts EXCEPT ![senderEmail].balance = JsSub(@, ParseFloat(amount))]

\* lines 72-75: recipient.balance += parseFloat(amount), if they're a user
Credit(accounts, recipientEmail, amount) ==
    IF recipientEmail \in DOMAIN accounts
    THEN [accounts EXCEPT ![recipientEmail].balance = JsAdd(@, ParseFloat(amount))]
    ELSE accounts

\* lines 100-112: the response of a send that committed; sender.balance is
\* read when the response is written
SendOk(t) ==
    [op |-> "send", status |-> 200,
     message |-> "Payment sent successfully",
     transaction |-> [id |-> t.tx.id, recipientEmail |-> t.tx.recipientEmail,
                      recipientName |-> t.tx.recipientName, amount |-> t.tx.amount,
                      note |-> t.tx.note, timestamp |-> t.tx.timestamp,
                      status |-> "completed"],
     newBalance |-> users[t.tx.senderEmail].balance]

\* a variant of SendMoney that starts the sender's receipt before it stores
\* the transaction
SendMoneyNotifyFirst(senderEmail, recipientEmail, amount) ==
    LET reject == SendReject(senderEmail, recipientEmail, amount)
        tx == NewTransaction(senderEmail, recipientEmail, amount)
        hasRecipient == recipientEmail \in DOMAIN users
    IN  IF reject # NoResp
        THEN /\ resp' = reject
             /\ UNCHANGED <<users, transactions, verificationCodes, rateLimits,
                            failedEmails, emailLogs, nextEmailId, now, tasks>>
        ELSE /\ HasFreeTask
             /\ users' = Credit(Debit(users, senderEmail, amount), recipientEmail, amount)
             /\ tasks' = [tasks EXCEPT ![FreeTask] =
                    [op |-> "send", stage |-> "sender", tx |-> tx,
                     hasRecipient |-> hasRecipient,
                     d |-> BeginDelivery(ReceiptMsg(senderEmail, tx, "sent"), "receipt",
                                         DefaultMaxRetries, nextEmailId)]]
             /\ nextEmailId' = nextEmailId + 1
             /\ UNCHANGED <<transactions, verificationCodes, rateLimits, failedEmails,
                            emailLogs, now>>
             /\ resp' = NoResp

\* lines 13-86: the handler up to the await of the sender's receipt
SendMoney(senderEmail, recipientEmail, amount) ==
    LET reject == SendReject(senderEmail, recipientEmail, amount)
        tx == NewTransaction(senderEmail, recipientEmail, amount)
        hasRecipient == recipientEmail \in DOMAIN users
    IN  IF reject # NoResp
        THEN /\ resp' = reject
             /\ UNCHANGED <<users, transactions, verificationCodes, rateLimits,
                            failedEmails, emailLogs, nextEmailId, now, tasks>>
        ELSE /\ HasFreeTask
             /\ users' = Credit(Debit(users, senderEmail, amount), recipientEmail, amount)
             /\ transactions' = Append(transactions, tx)
             /\ tasks' = [tasks EXCEPT ![FreeTask] =
                    [op |-> "send", stage |-> "sender", tx |-> tx,
                     hasRecipient |-> hasRecipient,
                     d |-> BeginDelivery(ReceiptMsg(senderEmail, tx, "sent"), "receipt",
                                         DefaultMaxRetries, nextEmailId)]]
             /\ nextEmailId' = nextEmailId + 1
             /\ UNCHANGED <<verificationCodes, rateLimits, failedEmails, emailLogs, now>>
             /\ resp' = NoResp


(***************************************************************************)
(* POST /api/transactions/request.  The handler has no await: it runs in   *)
(* one step.  A request is stored in `transactions` with the fields        *)
(* requesterEmail / requesteeEmail, not senderEmail / recipientEmail.      *)
(***************************************************************************)

\* line 125: !requesteeEmail || !amount
MissingRequestFields(requesteeEmail, amount) == requesteeEmail = NoEmail \/ Falsy(amount)

\* a variant of RequestReject that checks the balance as send does
RequestRejectWithFunds(requesterEmail, requesteeEmail, amount) ==
    CASE MissingRequestFields(requesteeEmail, amount) ->
            Err("request", 400, "Requestee email and amount are required")
      [] NonPositive(amount) ->
            Err("request", 400, "Amount must be greater than 0")
      [] requesterEmail \notin DOMAIN users ->
            Err("request", 404, "Requester not found")
      [] NotVerified(users[requesterEmail]) ->
            Err("request", 403, "EMAIL_NOT_VERIFIED")
      [] InsufficientFunds(users[requesterEmail], amount) ->
            Err("request", 400, "Insufficient funds")
      [] OTHER -> NoResp

\* lines 124-146: the response of the first check that rejects the request,
\* NoResp when none does
RequestReject(requesterEmail, requesteeEmail, amount) ==
    CASE MissingRequestFields(requesteeEmail, amount) ->
            Err("request", 400, "Requestee email and amount are required")
      [] NonPositive(amount) ->
            Err("request", 400, "Amount must be greater than 0")
      [] requesterEmail \notin DOMAIN users ->
            Err("request", 404, "Requester not found")
      [] NotVerified(users[requesterEmail]) ->
            Err("request", 403, "EMAIL_NOT_VERIFIED")
      [] OTHER -> NoResp

\* lines 148-162: the request record
NewRequest(requesterEmail, requesteeEmail, amount) ==
    [id |-> Len(transactions) + 1,
     requesterEmail |-> requesterEmail, requesterName |-> users[requesterEmail].name,
     requesteeEmail |-> requesteeEmail,
     amount |-> ParseFloat(amount), note |-> "", timestamp |-> now,
     status |-> "pending"]

\* lines 178-188: the response of a request that was stored
RequestOk(request) ==
    [op |-> "request", status |-> 200,
     message |-> "Money request sent successfully",
     request |-> [id |-> request.id, requesteeEmail |-> request.requesteeEmail,
                  amount |-> request.amount, note |-> request.note,
                  timestamp |-> request.timestamp, status |-> "pending"]]

\* lines 120-194
RequestMoney(requesterEmail, requesteeEmail, amount) ==
    LET reject == RequestReject(requesterEmail, requesteeEmail, amount)
        request == NewRequest(requesterEmail, requesteeEmail, amount)
    IN  /\ IF reject # NoResp
           THEN /\ resp' = reject
                /\ UNCHANGED transactions
           ELSE /\ transactions' = Append(transactions, request)
                /\ resp' = RequestOk(request)
        /\ UNCHANGED <<users, verificationCodes, rateLimits, failedEmails, emailLogs,
                       nextEmailId, now, tasks>>

(***************************************************************************)
(* GET /api/transactions/history and GET /api/transactions/:transactionId. *)
(***************************************************************************)

\* the value of a property a record does not have
Undefined == "undefined"

\* transaction.<f>
Field(t, f) == IF f \in DOMAIN t THEN t[f] ELSE Undefined

\* a variant of Involves without the test
InvolvesAnyone(t, userEmail) == TRUE

\* lines 204, 242: the user is the sender or the recipient of the record
Involves(t, userEmail) ==
    Field(t, "senderEmail") = userEmail \/ Field(t, "recipientEmail") = userEmail

\* a variant of Projection that tells the direction from the sender
ProjectionFromSender(t, userEmail) ==
    LET isReceived == Field(t, "senderEmail") = userEmail
    IN  [id |-> t.id,
         type |-> IF isReceived THEN "received" ELSE "sent",
         name |-> IF isReceived THEN Field(t, "senderName") ELSE Field(t, "recipientName"),
         email |-> IF isReceived THEN Field(t, "senderEmail") ELSE Field(t, "recipientEmail"),
         amount |-> t.amount, note |-> t.note, timestamp |-> t.timestamp,
         status |-> t.status]

\* lines 205-215, 246-258: the record as the user is shown it
Projection(t, userEmail) ==
    LET isReceived == Field(t, "recipientEmail") = userEmail
    IN  [id |-> t.id,
         type |-> IF isReceived THEN "received" ELSE "sent",
         name |-> IF isReceived THEN Field(t, "senderName") ELSE Field(t, "recipientName"),
         email |-> IF isReceived THEN Field(t, "senderEmail") ELSE Field(t, "recipientEmail"),
         amount |-> t.amount, note |-> t.note, timestamp |-> t.timestamp,
         status |-> t.status]

\* lines 200-217: the records of the user, in insertion order
UserTransactions(userEmail) ==
    LET mine == SelectSeq(transactions, LAMBDA t : Involves(t, userEmail))
    IN  [k \in 1..Len(mine) |-> Projection(mine[k], userEmail)]

\* where a sort that is stable puts x among the entries sorted before it
InsertNewestFirst(sorted, x) ==
    LET before == SelectSeq(sorted, LAMBDA y : y.timestamp >= x.timestamp)
        after == SelectSeq(sorted, LAMBDA y : y.timestamp < x.timestamp)
    IN  before \o <<x>> \o after

\* line 220: sort((a, b) => new Date(b.timestamp) - new Date(a.timestamp))
RECURSIVE SortNewestFirst(_)
SortNewestFirst(q) ==
    IF q = << >> THEN << >>
    ELSE InsertNewestFirst(SortNewestFirst(SubSeq(q, 1, Len(q) - 1)), q[Len(q)])

\* lines 197-227: what history answers the user
History(userEmail) == SortNewestFirst(UserTransactions(userEmail))

\* lines 197-227
GetHistory(userEmail) ==
    /\ resp' = [op |-> "history", status |-> 200, transactions |-> History(userEmail)]
    /\ UNCHANGED <<users, transactions, verificationCodes, rateLimits, failedEmails,
                   emailLogs, nextEmailId, now, tasks>>

\* lines 230-262: what get answers the user
TransactionDetails(transactionId, userEmail) ==
    IF transactionId \notin 1..Len(transactions)
    THEN Err("get", 404, "Transaction not found")
    ELSE IF ~Involves(transactions[transactionId], userEmail)
    THEN Err("get", 403, "Access denied")
    ELSE [op |-> "get", status |-> 200,
          transaction |-> Projection(transactions[transactionId], userEmail)]

\* lines 230-262
GetTransaction(transactionId, userEmail) ==
    /\ resp' = TransactionDetails(transactionId, userEmail)
    /\ UNCHANGED <<users, transactions, verificationCodes, rateLimits, failedEmails,
                   emailLogs, nextEmailId, now, tasks>>


(***************************************************************************)
(* Verification codes: EmailService.checkRateLimit, sendVerificationCode   *)
(* and verifyCode.                                                         *)
(***************************************************************************)

\* what generateVerificationCode can return, and the codes a client submits
GeneratedCodes == {"123456", "654321"}
InputCodes == GeneratedCodes

\* line 101: `${email}:${type}`
RateKey(email, type) == <<email, type>>

\* a variant of RecentAttempts that keeps the attempt made exactly an hour ago
RecentAttemptsInclusive(key) ==
    LET attempts == IF key \in DOMAIN rateLimits THEN rateLimits[key] ELSE << >>
        hourAgo == now - HourMs
    IN  SelectSeq(attempts, LAMBDA timestamp : timestamp >= hourAgo)

\* a variant of RecentAttempts that never discards an attempt
RecentAttemptsKept(key) ==
    IF key \in DOMAIN rateLimits THEN rateLimits[key] ELSE << >>

\* line 111: the attempts of the last hour
RecentAttempts(key) ==
    LET attempts == IF key \in DOMAIN rateLimits THEN rateLimits[key] ELSE << >>
        hourAgo == now - HourMs
    IN  SelectSeq(attempts, LAMBDA timestamp : timestamp > hourAgo)

\* line 114: recentAttempts.length >= 3
RateLimited(key) == Len(RecentAttempts(key)) >= RateMax

\* a variant of CheckRateLimit that records the refused checks too
CheckRateLimitCounting(key) ==
    MapSet(rateLimits, key, Append(RecentAttempts(key), now))

\* lines 100-121: rateLimits after checkRateLimit(email, type)
CheckRateLimit(key) ==
    MapSet(rateLimits, key,
           IF RateLimited(key) THEN RecentAttempts(key)
           ELSE Append(RecentAttempts(key), now))

\* a variant of NewCodeRecord that carries one counted attempt
NewCodeRecordCounted(code) == [code |-> code, expiresAt |-> now + CodeTtlMs, attempts |-> 1]

\* lines 130-137: the stored record of a new code
NewCodeRecord(code) == [code |-> code, expiresAt |-> now + CodeTtlMs, attempts |-> 0]

\* a variant of VerifyOutcome for which a code expires at its expiry instant
VerifyOutcomeExpiresEarly(email, inputCode) ==
    CASE email \notin DOMAIN verificationCodes -> "NotFound"
      [] now >= verificationCodes[email].expiresAt -> "Expired"
      [] verificationCodes[email].attempts >= MaxCodeAttempts -> "TooManyAttempts"
      [] verificationCodes[email].code # inputCode -> "InvalidCode"
      [] OTHER -> "ok"

\* a variant of VerifyOutcome that allows one more attempt
VerifyOutcomeLate(email, inputCode) ==
    CASE email \notin DOMAIN verificationCodes -> "NotFound"
      [] now > verificationCodes[email].expiresAt -> "Expired"
      [] verificationCodes[email].attempts > MaxCodeAttempts -> "TooManyAttempts"
      [] verificationCodes[email].code # inputCode -> "InvalidCode"
      [] OTHER -> "ok"

\* a variant of VerifyOutcome that tests the attempt counter before the expiry
VerifyOutcomeCounterFirst(email, inputCode) ==
    CASE email \notin DOMAIN verificationCodes -> "NotFound"
      [] verificationCodes[email].attempts >= MaxCodeAttempts -> "TooManyAttempts"
      [] now > verificationCodes[email].expiresAt -> "Expired"
      [] verificationCodes[email].code # inputCode -> "InvalidCode"
      [] OTHER -> "ok"

\* lines 208-233: how verifyCode(email, inputCode) ends
VerifyOutcome(email, inputCode) ==
    CASE email \notin DOMAIN verificationCodes -> "NotFound"
      [] now > verificationCodes[email].expiresAt -> "Expired"
      [] verificationCodes[email].attempts >= MaxCodeAttempts -> "TooManyAttempts"
      [] verificationCodes[email].code # inputCode -> "InvalidCode"
      [] OTHER -> "ok"

\* a variant of VerifyCode that keeps the record of a code that matched
VerifyCodeReusable(email, inputCode) ==
    LET outcome == VerifyOutcome(email, inputCode)
    IN  CASE outcome = "NotFound" -> verificationCodes
          [] outcome = "InvalidCode" ->
                [verificationCodes EXCEPT ![email].attempts = @ + 1]
          [] outcome = "ok" -> verificationCodes
          [] OTHER -> MapDelete(verificationCodes, email)

\* lines 208-233: verificationCodes after verifyCode(email, inputCode)
VerifyCode(email, inputCode) ==
    LET outcome == VerifyOutcome(email, inputCode)
    IN  CASE outcome = "NotFound" -> verificationCodes
          [] outcome = "InvalidCode" ->
                [verificationCodes EXCEPT ![email].attempts = @ + 1]
          [] OTHER -> MapDelete(verificationCodes, email)

(***************************************************************************)
(* Accounts: POST /api/auth/register, /verify-email, /resend-verification. *)
(***************************************************************************)
RegNames == {"Ann"}

\* a variant of NewUser that opens the account with a balance of 1
NewUserEndowed(name) == [name |-> name, verified |-> FALSE, balance |-> Num(1)]

\* auth.js lines 57-66
NewUser(name) == [name |-> name, verified |-> FALSE, balance |-> Num(0)]

\* auth.js lines 34-54: the handler up to the await of bcrypt.hash
Register(name, email) ==
    IF email = NoEmail
    THEN /\ resp' = Err("register", 400, "All fields are required")
         /\ UNCHANGED <<users, transactions, verificationCodes, rateLimits,
                        failedEmails, emailLogs, nextEmailId, now, tasks>>
    ELSE IF email \in DOMAIN users
    THEN /\ resp' = Err("register", 409, "User already exists")
         /\ UNCHANGED <<users, transactions, verificationCodes, rateLimits,
                        failedEmails, emailLogs, nextEmailId, now, tasks>>
    ELSE /\ HasFreeTask
         /\ tasks' = [tasks EXCEPT ![FreeTask] =
                [op |-> "register", stage |-> "hash", email |-> email, name |-> name]]
         /\ UNCHANGED <<users, transactions, verificationCodes, rateLimits, failedEmails, emailLogs, nextEmailId, now>>
         /\ resp' = NoResp

\* auth.js lines 56-71 with emailService.js lines 123-147: bcrypt.hash
\* returned; the account is stored and the code is issued
RegisterHashed(i, code) ==
    /\ tasks[i].op = "register" /\ tasks[i].stage = "hash"
    /\ LET email == tasks[i].email
           key == RateKey(email, "verification")
       IN  /\ users' = MapSet(users, email, NewUser(tasks[i].name))
           /\ rateLimits' = CheckRateLimit(key)
           /\ IF RateLimited(key)
              THEN /\ resp' = Err("register", 500, "Rate limit exceeded")
                   /\ tasks' = [tasks EXCEPT ![i] = Idle]
                   /\ UNCHANGED <<verificationCodes, nextEmailId>>
              ELSE /\ verificationCodes' = MapSet(verificationCodes, email, NewCodeRecord(code))
                   /\ tasks' = [tasks EXCEPT ![i] =
                        [op |-> "register", stage |-> "code", email |-> email,
                         d |-> BeginDelivery(VerificationMsg(email, code), "verification",
                                             DefaultMaxRetries, nextEmailId)]]
                   /\ nextEmailId' = nextEmailId + 1
                   /\ resp' = NoResp
    /\ UNCHANGED <<transactions, failedEmails, emailLogs, now>>

\* auth.js lines 132-149 with emailService.js lines 123-147
ResendVerification(email, code) ==
    LET key == RateKey(email, "verification")
        fail(status, error) ==
            /\ resp' = Err("resend", status, error)
            /\ UNCHANGED <<users, transactions, verificationCodes, rateLimits,
                           failedEmails, emailLogs, nextEmailId, now, tasks>>
    IN  IF email = NoEmail THEN fail(400, "Email is required")
        ELSE IF email \notin DOMAIN users THEN fail(404, "User not found")
        ELSE IF users[email].verified THEN fail(400, "User is already verified")
        ELSE IF RateLimited(key)
        THEN /\ rateLimits' = CheckRateLimit(key)
             /\ resp' = Err("resend", 400, "Rate limit exceeded")
             /\ UNCHANGED <<users, transactions, verificationCodes, failedEmails,
                            emailLogs, nextEmailId, now, tasks>>
        ELSE /\ HasFreeTask
             /\ rateLimits' = CheckRateLimit(key)
             /\ verificationCodes' = MapSet(verificationCodes, email, NewCodeRecord(code))
             /\ tasks' = [tasks EXCEPT ![FreeTask] =
                    [op |-> "resend", stage |-> "code", email |-> email,
                     d |-> BeginDelivery(VerificationMsg(email, code), "verification",
                                         DefaultMaxRetries, nextEmailId)]]
             /\ nextEmailId' = nextEmailId + 1
             /\ UNCHANGED <<users, transactions, failedEmails, emailLogs, now>>
             /\ resp' = NoResp

\* auth.js lines 84-105 with emailService.js lines 208-233
VerifyEmail(email, inputCode) ==
    LET outcome == VerifyOutcome(email, inputCode)
        fail(status, error) ==
            /\ resp' = Err("verify", status, error)
            /\ UNCHANGED <<users, transactions, rateLimits, failedEmails, emailLogs,
                           nextEmailId, now, tasks>>
    IN  IF email = NoEmail
        THEN fail(400, "Email and verification code are required")
             /\ UNCHANGED verificationCodes
        ELSE IF email \notin DOMAIN users
        THEN fail(404, "User not found") /\ UNCHANGED verificationCodes
        ELSE IF outcome # "ok"
        THEN fail(400, outcome) /\ verificationCodes' = VerifyCode(email, inputCode)
        ELSE /\ HasFreeTask
             /\ verificationCodes' = VerifyCode(email, inputCode)
             /\ users' = [users EXCEPT ![email].verified = TRUE]
             /\ tasks' = [tasks EXCEPT ![FreeTask] =
                    [op |-> "verify", stage |-> "welcome", email |-> email,
                     d |-> BeginDelivery(WelcomeMsg(email, users[email].name), "welcome",
                                         DefaultMaxRetries, nextEmailId)]]
             /\ nextEmailId' = nextEmailId + 1
             /\ UNCHANGED <<transactions, rateLimits, failedEmails, emailLogs, now>>
             /\ resp' = NoResp


(***************************************************************************)
(* Admin: POST /api/admin/emails/retry/:emailId (retryFailedEmail), and a  *)
(* direct call of sendEmailWithRetry(emailData, type, maxRetries).         *)
(***************************************************************************)

\* a variant of RetryFailedEmail that sends the payload again as type "retry"
RetryFailedEmailRetyped(emailId) ==
    IF emailId \notin DOMAIN failedEmails
    THEN /\ resp' = Err("retry", 400, "Failed email not found")
         /\ UNCHANGED <<users, transactions, verificationCodes, rateLimits,
                        failedEmails, emailLogs, nextEmailId, now, tasks>>
    ELSE /\ HasFreeTask
         /\ tasks' = [tasks EXCEPT ![FreeTask] =
                [op |-> "retry", stage |-> "retry", emailId |-> emailId,
                 d |-> BeginDelivery(failedEmails[emailId].emailData, "retry",
                                     DefaultMaxRetries, nextEmailId)]]
         /\ nextEmailId' = nextEmailId + 1
         /\ UNCHANGED <<users, transactions, verificationCodes, rateLimits, failedEmails, emailLogs, now>>
         /\ resp' = NoResp

\* a variant of RetryFailedEmail that logs the retry of an unknown id as a
\* failed delivery
RetryFailedEmailLogging(emailId) ==
    IF emailId \notin DOMAIN failedEmails
    THEN /\ resp' = Err("retry", 400, "Failed email not found")
         /\ emailLogs' = Append(emailLogs,
                [id |-> emailId, to |-> NoEmail, type |-> "unknown", timestamp |-> now,
                 attempts |-> 0, success |-> FALSE, errors |-> << >>])
         /\ UNCHANGED <<users, transactions, verificationCodes, rateLimits,
                        failedEmails, nextEmailId, now, tasks>>
    ELSE /\ HasFreeTask
         /\ tasks' = [tasks EXCEPT ![FreeTask] =
                [op |-> "retry", stage |-> "retry", emailId |-> emailId,
                 d |-> BeginDelivery(failedEmails[emailId].emailData,
                                     failedEmails[emailId].type,
                                     DefaultMaxRetries, nextEmailId)]]
         /\ nextEmailId' = nextEmailId + 1
         /\ UNCHANGED <<users, transactions, verificationCodes, rateLimits, failedEmails, emailLogs, now>>
         /\ resp' = NoResp

\* emailService.js lines 85-92 with the route at lines 597-612
RetryFailedEmail(emailId) ==
    IF emailId \notin DOMAIN failedEmails
    THEN /\ resp' = Err("retry", 400, "Failed email not found")
         /\ UNCHANGED <<users, transactions, verificationCodes, rateLimits,
                        failedEmails, emailLogs, nextEmailId, now, tasks>>
    ELSE /\ HasFreeTask
         /\ tasks' = [tasks EXCEPT ![FreeTask] =
                [op |-> "retry", stage |-> "retry", emailId |-> emailId,
                 d |-> BeginDelivery(failedEmails[emailId].emailData,
                                     failedEmails[emailId].type,
                                     DefaultMaxRetries, nextEmailId)]]
         /\ nextEmailId' = nextEmailId + 1
         /\ UNCHANGED <<users, transactions, verificationCodes, rateLimits, failedEmails, emailLogs, now>>
         /\ resp' = NoResp

\* emailService.js lines 13-35: sendEmailWithRetry called on its own
SendEmailWithRetry(emailData, type, maxRetries) ==
    /\ HasFreeTask
    /\ tasks' = [tasks EXCEPT ![FreeTask] =
           [op |-> "deliver", stage |-> "direct",
            d |-> BeginDelivery(emailData, type, maxRetries, nextEmailId)]]
    /\ nextEmailId' = nextEmailId + 1
    /\ UNCHANGED <<users, transactions, verificationCodes, rateLimits, failedEmails, emailLogs, now>>
    /\ resp' = NoResp

(***************************************************************************)
(* Routes behind the access token: authenticateToken (auth.js) and         *)
(* requireAdmin run before the handler body.  A token is absent            *)
(* (no Authorization header, or no second word in it), rejected by         *)
(* jwt.verify, or carries the email of a user.                             *)
(***************************************************************************)
NoToken == [kind |-> "none"]
BadToken == [kind |-> "bad"]
TokenOf(email) == [kind |-> "jwt", email |-> email]

\* process.env.ADMIN_EMAILS
AdminEmails == {"a@x"}

\* the limit the statistics route passes to getEmailLogs
StatsLimit == 1000

\* a variant of AuthenticateToken that answers a missing token like one that
\* jwt.verify rejects
AuthenticateTokenAs403(op, token) ==
    IF token.kind # "jwt" THEN Err(op, 403, "Invalid or expired token")
    ELSE NoResp

\* auth.js lines 16-31: the answer of the middleware, NoResp when it calls
\* next()
AuthenticateToken(op, token) ==
    IF token.kind = "none" THEN Err(op, 401, "Access token required")
    ELSE IF token.kind = "bad" THEN Err(op, 403, "Invalid or expired token")
    ELSE NoResp

\* emailService.js lines 550-560: the answer of requireAdmin, NoResp when
\* it calls next()
RequireAdmin(op, token) ==
    IF token.email \notin AdminEmails THEN Err(op, 403, "Admin access required")
    ELSE NoResp

\* a middleware answered and the handler body did not run
Refused(response) ==
    /\ resp' = response
    /\ UNCHANGED <<users, transactions, verificationCodes, rateLimits, failedEmails,
                   emailLogs, nextEmailId, now, tasks>>

\* transactions.js line 13: POST /send
PostSend(token, recipientEmail, amount) ==
    IF AuthenticateToken("send", token) # NoResp
    THEN Refused(AuthenticateToken("send", token))
    ELSE SendMoney(token.email, recipientEmail, amount)

\* transactions.js line 197: GET /history
GetHistoryRoute(token) ==
    IF AuthenticateToken("history", token) # NoResp
    THEN Refused(AuthenticateToken("history", token))
    ELSE GetHistory(token.email)

\* emailService.js lines 73-77: getEmailLogs sorts this.emailLogs in place
\* and returns a copy of its first entries
SortedLogs == SortNewestFirst(emailLogs)

\* the array getEmailLogs(limit) returns
EmailLogsPage(limit) ==
    SubSeq(SortedLogs, 1, IF Len(SortedLogs) < limit THEN Len(SortedLogs) ELSE limit)

\* emailService.js lines 653-673: the statistics of the logs
EmailStats(logs) ==
    LET count(P(_)) == Cardinality({j \in 1..Len(logs) : P(logs[j])})
        types == {logs[j].type : j \in 1..Len(logs)}
    IN  [op |-> "stats", status |-> 200,
         total |-> Len(logs),
         successful |-> count(LAMBDA l : l.success),
         failed |-> count(LAMBDA l : ~l.success),
         pendingRetries |-> Cardinality(DOMAIN failedEmails),
         byType |-> [t \in types |->
            [total |-> count(LAMBDA l : l.type = t),
             successful |-> count(LAMBDA l : l.type = t /\ l.success),
             failed |-> count(LAMBDA l : l.type = t /\ ~l.success)]],
         recentActivity |-> SubSeq(logs, 1, IF Len(logs) < 10 THEN Len(logs) ELSE 10)]

\* emailService.js lines 648-680: GET /emails/stats
GetEmailStats(token) ==
    IF AuthenticateToken("stats", token) # NoResp
    THEN Refused(AuthenticateToken("stats", token))
    ELSE IF RequireAdmin("stats", token) # NoResp
    THEN Refused(RequireAdmin("stats", token))
    ELSE /\ emailLogs' = SortedLogs
         /\ resp' = EmailStats(EmailLogsPage(StatsLimit))
         /\ UNCHANGED <<users, transactions, verificationCodes, rateLimits, failedEmails,
                        nextEmailId, now, tasks>>

(***************************************************************************)
(* What a suspended request does when its delivery cycle has ended:        *)
(* [task, resp, started], where started says that it began another cycle.  *)
(***************************************************************************)
Ended(task, response, started) == [task |-> task, resp |-> response, started |-> started]

\* a variant of AfterReceipt in which a receipt that failed for good fails the
\* request, as the catch of the handler at lines 114-117 would
AfterReceiptFailing(t, ok) ==
    IF t.stage = "sender" /\ ok /\ t.hasRecipient
    THEN Ended([t EXCEPT !.stage = "recipient",
                         !.d = BeginDelivery(ReceiptMsg(t.tx.recipientEmail, t.tx, "received"),
                                             "receipt", DefaultMaxRetries, nextEmailId)],
               NoResp, TRUE)
    ELSE Ended(Idle, IF ok THEN SendOk(t) ELSE Err("send", 500, "Failed to send money"), FALSE)

\* transactions.js lines 83-112
AfterReceipt(t, ok) ==
    IF t.stage = "sender" /\ ok /\ t.hasRecipient
    THEN Ended([t EXCEPT !.stage = "recipient",
                         !.d = BeginDelivery(ReceiptMsg(t.tx.recipientEmail, t.tx, "received"),
                                             "receipt", DefaultMaxRetries, nextEmailId)],
               NoResp, TRUE)
    ELSE Ended(Idle, SendOk(t), FALSE)

\* auth.js lines 73-80
AfterRegisterCode(t, ok, val) ==
    Ended(Idle,
          IF ok THEN [op |-> "register", status |-> 201]
          ELSE Fail("register", 500, val),
          FALSE)

\* auth.js lines 151-155
AfterResendCode(t, ok, val) ==
    Ended(Idle,
          IF ok THEN [op |-> "resend", status |-> 200]
          ELSE Fail("resend", 400, val),
          FALSE)

\* auth.js lines 107-128
AfterWelcome(t, ok, val) ==
    Ended(Idle,
          IF ok THEN [op |-> "verify", status |-> 200]
          ELSE Fail("verify", 400, val),
          FALSE)

\* emailService.js lines 93-96 with the route at lines 597-612
AfterRetry(t, ok, val) ==
    Ended(Idle,
          IF ok THEN [op |-> "retry", status |-> 200, result |-> val]
          ELSE Fail("retry", 400, [msg |-> "Retry failed", cause |-> val]),
          FALSE)

\* emailService.js lines 46 and 66: what the caller of a direct call gets
AfterDirect(t, ok, val) ==
    Ended(Idle,
          IF ok THEN [op |-> "deliver", returned |-> val]
          ELSE [op |-> "deliver", error |-> val],
          FALSE)

After(t, ok, val) ==
    CASE t.op = "send" -> AfterReceipt(t, ok)
      [] t.op = "register" -> AfterRegisterCode(t, ok, val)
      [] t.op = "resend" -> AfterResendCode(t, ok, val)
      [] t.op = "verify" -> AfterWelcome(t, ok, val)
      [] t.op = "retry" -> AfterRetry(t, ok, val)
      [] OTHER -> AfterDirect(t, ok, val)

Resume(i, ended) ==
    /\ tasks' = [tasks EXCEPT ![i] = ended.task]
    /\ resp' = ended.resp
    /\ nextEmailId' = IF ended.started THEN nextEmailId + 1 ELSE nextEmailId

(***************************************************************************)
(* The steps of a delivery cycle.                                          *)
(***************************************************************************)

\* emailService.js lines 35-46: sgMail.send returned
MailerOk(i) ==
    /\ Delivering(i) /\ tasks[i].d.phase = "sending"
    /\ LET d == tasks[i].d
       IN  /\ emailLogs' = Append(emailLogs, SuccessLog(d))
           /\ failedEmails' = MapDelete(failedEmails, d.logEntry.id)
           /\ Resume(i, After(tasks[i], TRUE, DeliveryResult(d)))
    /\ UNCHANGED <<users, transactions, verificationCodes, rateLimits, now>>

\* a variant of MailerFail that drops a cycle after its last attempt without
\* a terminal log
MailerFailAbandoning(i, m) ==
    /\ Delivering(i) /\ tasks[i].d.phase = "sending"
    /\ LET d == tasks[i].d
       IN  IF IsLastAttempt(d)
           THEN /\ UNCHANGED <<emailLogs, failedEmails>>
                /\ Resume(i, After(tasks[i], FALSE, DeliveryError(d, m)))
           ELSE /\ tasks' = [tasks EXCEPT ![i].d = NextAttempt(d, m)]
                /\ UNCHANGED <<emailLogs, failedEmails, nextEmailId>>
                /\ resp' = NoResp
    /\ UNCHANGED <<users, transactions, verificationCodes, rateLimits, now>>

\* emailService.js lines 48-68: sgMail.send threw
MailerFail(i, m) ==
    /\ Delivering(i) /\ tasks[i].d.phase = "sending"
    /\ LET d == tasks[i].d
       IN  IF IsLastAttempt(d)
           THEN /\ emailLogs' = Append(emailLogs, FailureLog(d, m))
                /\ failedEmails' = MapSet(failedEmails, d.logEntry.id, FailedEntry(d, m))
                /\ Resume(i, After(tasks[i], FALSE, DeliveryError(d, m)))
           ELSE /\ tasks' = [tasks EXCEPT ![i].d = NextAttempt(d, m)]
                /\ UNCHANGED <<emailLogs, failedEmails, nextEmailId>>
                /\ resp' = NoResp
    /\ UNCHANGED <<users, transactions, verificationCodes, rateLimits, now>>

\* the earliest timer of a waiting cycle
IsNextTimer(i) ==
    \A j \in Busy : (Delivering(j) /\ tasks[j].d.phase = "backoff") =>
        tasks[i].d.wakeAt <= tasks[j].d.wakeAt

\* emailService.js lines 30-35: the setTimeout of the backoff fired
BackoffElapsed(i) ==
    /\ Delivering(i) /\ tasks[i].d.phase = "backoff"
    /\ IsNextTimer(i)
    /\ now' = IF now < tasks[i].d.wakeAt THEN tasks[i].d.wakeAt ELSE now
    /\ tasks' = [tasks EXCEPT ![i].d.phase = "sending"]
    /\ UNCHANGED <<users, transactions, verificationCodes, rateLimits, failedEmails, emailLogs, nextEmailId>>
    /\ resp' = NoResp

\* time passes; a timer that is due fires before the clock moves past it
Tick(ms) ==
    /\ \A j \in Busy : (Delivering(j) /\ tasks[j].d.phase = "backoff") =>
            now + ms <= tasks[j].d.wakeAt
    /\ now' = now + ms
    /\ resp' = NoResp
    /\ UNCHANGED <<users, transactions, verificationCodes, rateLimits, failedEmails,
                   emailLogs, nextEmailId, tasks>>

\* the size of a run: requests suspended at the same time, delivery cycles
\* started or still to start, stored transactions, and the clock
Within(maxTasks, maxEmails, maxTx, maxNow) ==
    /\ Cardinality(Busy) <= maxTasks
    /\ (nextEmailId - 1) + ReservedIds <= maxEmails
    /\ Len(transactions) <= maxTx
    /\ now <= maxNow

(***************************************************************************)
(* Accounts come to exist and to be verified from the empty system.        *)
(***************************************************************************)
NextSetup ==
    \/ \E n \in RegNames, e \in {"a@x", "b@x"} : Register(n, e) /\ Within(1, 3, 0, 0)'
    \/ \E i \in TaskIds : RegisterHashed(i, "123456")
    \/ \E e \in {"a@x", "b@x"} : VerifyEmail(e, "123456") /\ Within(1, 3, 0, 0)'
    \/ \E i \in TaskIds : MailerOk(i)

SpecSetup == Init /\ [][NextSetup]_vars

\* registrations of one address that overlap at the await of bcrypt.hash
AccountTasks == 2
AccountMaxEmails == 3
AccountBound == Within(AccountTasks, AccountMaxEmails, 0, 0)

NextAccounts ==
    \/ \E n \in RegNames : Register(n, "a@x") /\ AccountBound'
    \/ \E i \in TaskIds, c \in GeneratedCodes : RegisterHashed(i, c)
    \/ \E c \in InputCodes : VerifyEmail("a@x", c) /\ AccountBound'
    \/ \E i \in TaskIds : MailerOk(i)

SpecAccounts == Init /\ [][NextAccounts]_vars

\* a state of SpecSetup: a@x is registered and verified, b@x is registered
\* and holds its code, every delivery succeeded at its first attempt
Registered ==
    /\ now = 0
    /\ users = MapSet(MapSet(<< >>, "a@x", [NewUser("Ann") EXCEPT !.verified = TRUE]),
                      "b@x", NewUser("Ann"))
    /\ transactions = << >>
    /\ verificationCodes = MapSet(<< >>, "b@x", NewCodeRecord("123456"))
    /\ rateLimits = MapSet(MapSet(<< >>, RateKey("a@x", "verification"), <<0>>),
                           RateKey("b@x", "verification"), <<0>>)
    /\ failedEmails = << >>
    /\ emailLogs =
        << SuccessLog(BeginDelivery(VerificationMsg("a@x", "123456"), "verification",
                                    DefaultMaxRetries, 1)),
           SuccessLog(BeginDelivery(WelcomeMsg("a@x", "Ann"), "welcome",
                                    DefaultMaxRetries, 2)),
           SuccessLog(BeginDelivery(VerificationMsg("b@x", "123456"), "verification",
                                    DefaultMaxRetries, 3)) >>
    /\ nextEmailId = 4
    /\ tasks = [i \in TaskIds |-> Idle]
    /\ resp = [op |-> "register", status |-> 201]

(***************************************************************************)
(* The ledger, from the state Registered.  The transport delivers.         *)
(***************************************************************************)
LedgerTasks == 1
LedgerMaxTx == 2

Amounts == {JNum(-1), JNum(0), JNum(1),
            JStr(<<-2>>, TRUE), JStr(<<1>>, TRUE)}

\* the send requests: every account state of the sender with every recipient
\* and amount, a sender without account, and a request without recipient
SendRequests ==
    {<<s, r, a>> : s \in {"a@x", "b@x"}, r \in Emails, a \in Amounts}
    \cup {<<"c@x", "a@x", a>> : a \in Amounts}
    \cup {<<"a@x", NoEmail, a>> : a \in {JNum(-1), JNum(1)}}

LedgerBound == Within(LedgerTasks, 4 + 2 * LedgerMaxTx, LedgerMaxTx, 0)

NextLedger ==
    \/ \E q \in SendRequests : SendMoney(q[1], q[2], q[3]) /\ LedgerBound'
    \/ \E i \in TaskIds : MailerOk(i)

SpecLedger == Registered /\ [][NextLedger]_vars


(***************************************************************************)
(* The receipts of committed sends.  The transport may fail, so a receipt  *)
(* can end in a permanent failure.                                         *)
(***************************************************************************)

\* the transaction of a send of "-2abc" by a@x to c@x, which has no account
FundingTx ==
    [id |-> 1, senderEmail |-> "a@x", senderName |-> "Ann",
     recipientEmail |-> "c@x", recipientName |-> "c",
     amount |-> Num(-2), note |-> "", timestamp |-> 0, status |-> "completed"]

\* a state of SpecLedger: in the state Registered a@x sent "-2abc" to c@x,
\* which left it a balance of 2, and the receipt was delivered
Funded ==
    /\ now = 0
    /\ users = MapSet(MapSet(<< >>, "a@x", [name |-> "Ann", verified |-> TRUE, balance |-> Num(2)]),
                      "b@x", NewUser("Ann"))
    /\ transactions = << FundingTx >>
    /\ verificationCodes = MapSet(<< >>, "b@x", NewCodeRecord("123456"))
    /\ rateLimits = MapSet(MapSet(<< >>, RateKey("a@x", "verification"), <<0>>),
                           RateKey("b@x", "verification"), <<0>>)
    /\ failedEmails = << >>
    /\ emailLogs =
        << SuccessLog(BeginDelivery(VerificationMsg("a@x", "123456"), "verification",
                                    DefaultMaxRetries, 1)),
           SuccessLog(BeginDelivery(WelcomeMsg("a@x", "Ann"), "welcome",
                                    DefaultMaxRetries, 2)),
           SuccessLog(BeginDelivery(VerificationMsg("b@x", "123456"), "verification",
                                    DefaultMaxRetries, 3)),
           SuccessLog(BeginDelivery(ReceiptMsg("a@x", FundingTx, "sent"), "receipt",
                                    DefaultMaxRetries, 4)) >>
    /\ nextEmailId = 5
    /\ tasks = [i \in TaskIds |-> Idle]
    /\ resp = SendOk([tx |-> FundingTx])

ReceiptTasks == 1
ReceiptMaxTx == 1

\* a@x sends to an account and to an email without one; the sends of c@x
\* (no account) and b@x (unverified) are refused
ReceiptRequests ==
    {<<"a@x", r, JNum(1)>> : r \in {"b@x", "c@x"}}
        \cup {<<"c@x", "a@x", JNum(1)>>, <<"b@x", "a@x", JNum(1)>>}

ReceiptBound == Within(ReceiptTasks, 5 + 2 * ReceiptMaxTx, 1 + ReceiptMaxTx,
                       ReceiptMaxTx * 6 * BackoffUnitMs)

NextReceipts ==
    \/ \E q \in ReceiptRequests : SendMoney(q[1], q[2], q[3]) /\ ReceiptBound'
    \/ \E i \in TaskIds : MailerOk(i)
    \/ \E i \in TaskIds, m \in MailerErrors : MailerFail(i, m)
    \/ \E i \in TaskIds : BackoffElapsed(i)

SpecReceipts == Funded /\ [][NextReceipts]_vars

(***************************************************************************)
(* Codes issued again while the delivery of an earlier code is pending,    *)
(* from the state Registered: b@x asks for new codes and submits codes, and *)
(* the deliveries complete in any order.                                   *)
(***************************************************************************)
ReissueTasks == 2
ReissueMaxEmails == 5
ReissueMaxTicks == 1
ReissueBound == Within(ReissueTasks, ReissueMaxEmails, 0, ReissueMaxTicks * CodeTtlMs)

NextReissue ==
    \/ \E c \in GeneratedCodes : ResendVerification("b@x", c) /\ ReissueBound'
    \/ \E c \in InputCodes : VerifyEmail("b@x", c) /\ ReissueBound'
    \/ \E i \in TaskIds : MailerOk(i)
    \/ Tick(CodeTtlMs) /\ ReissueBound'

SpecReissue == Registered /\ [][NextReissue]_vars

(***************************************************************************)
(* The welcome email of a verification, from the state Registered, with a  *)
(* transport that may fail.                                                *)
(***************************************************************************)
WelcomeTasks == 1
WelcomeMaxEmails == 5
WelcomeBound == Within(WelcomeTasks, WelcomeMaxEmails, 0, 6 * BackoffUnitMs)

NextWelcome ==
    \/ \E c \in GeneratedCodes : ResendVerification("b@x", c) /\ WelcomeBound'
    \/ \E c \in InputCodes : VerifyEmail("b@x", c) /\ WelcomeBound'
    \/ \E i \in TaskIds : MailerOk(i)
    \/ \E i \in TaskIds, m \in MailerErrors : MailerFail(i, m)
    \/ \E i \in TaskIds : BackoffElapsed(i)

SpecWelcome == Registered /\ [][NextWelcome]_vars

(***************************************************************************)
(* The window of the rate limit, from the state Registered: b@x asks for   *)
(* codes while the clock moves by half windows.                            *)
(***************************************************************************)
WindowTasks == 1
WindowMaxEmails == 6
WindowMaxTicks == 3
WindowBound == Within(WindowTasks, WindowMaxEmails, 0, WindowMaxTicks * (HourMs \div 2))

NextWindow ==
    \/ \E c \in GeneratedCodes : ResendVerification("b@x", c) /\ WindowBound'
    \/ \E i \in TaskIds : MailerOk(i)
    \/ Tick(HourMs \div 2) /\ WindowBound'

SpecWindow == Registered /\ [][NextWindow]_vars

(***************************************************************************)
(* The exposed operations with numeric amounts, from the empty system.     *)
(***************************************************************************)
EmptyTasks == 1
EmptyMaxEmails == 4
EmptyMaxTx == 1
EmptyAmounts == {JNum(-1), JNum(0), JNum(1)}
EmptyBound == Within(EmptyTasks, EmptyMaxEmails, EmptyMaxTx, 0)

NextEmpty ==
    \/ \E n \in RegNames, e \in {"a@x", "b@x"} : Register(n, e) /\ EmptyBound'
    \/ \E i \in TaskIds : RegisterHashed(i, "123456")
    \/ \E e \in {"a@x", "b@x"} : VerifyEmail(e, "123456") /\ EmptyBound'
    \/ \E s \in {"a@x", "b@x"}, r \in {"b@x", "c@x"}, a \in EmptyAmounts :
            SendMoney(s, r, a) /\ EmptyBound'
    \/ \E s \in {"a@x", "b@x"} : RequestMoney(s, "c@x", JNum(1)) /\ EmptyBound'
    \/ \E i \in TaskIds : MailerOk(i)

SpecEmpty == Init /\ [][NextEmpty]_vars

(***************************************************************************)
(* Registration with a transport that may fail, from the empty system.     *)
(***************************************************************************)
EnrollTasks == 1
EnrollMaxEmails == 3
EnrollBound == Within(EnrollTasks, EnrollMaxEmails, 0, 12 * BackoffUnitMs)

NextEnroll ==
    \/ \E n \in RegNames, e \in {"a@x", "b@x", NoEmail} : Register(n, e) /\ EnrollBound'
    \/ \E i \in TaskIds, c \in GeneratedCodes : RegisterHashed(i, c)
    \/ \E c \in InputCodes : VerifyEmail("a@x", c) /\ EnrollBound'
    \/ \E i \in TaskIds : MailerOk(i)
    \/ \E i \in TaskIds, m \in MailerErrors : MailerFail(i, m)
    \/ \E i \in TaskIds : BackoffElapsed(i)

SpecEnroll == Init /\ [][NextEnroll]_vars

(***************************************************************************)
(* An account registered after a send to its email, from the state Funded. *)
(***************************************************************************)
LateTasks == 1
LateMaxEmails == 8
LateMaxTx == 1
LateBound == Within(LateTasks, LateMaxEmails, 1 + LateMaxTx, 0)

NextLate ==
    \/ \E r \in {"b@x", "c@x"} : SendMoney("a@x", r, JNum(1)) /\ LateBound'
    \/ \E n \in RegNames : Register(n, "c@x") /\ LateBound'
    \/ \E i \in TaskIds : RegisterHashed(i, "123456")
    \/ VerifyEmail("c@x", "123456") /\ LateBound'
    \/ \E e \in {"b@x", "c@x"} : GetHistory(e)
    \/ \E i \in TaskIds : MailerOk(i)

SpecLate == Funded /\ [][NextLate]_vars

(***************************************************************************)
(* Sends of one sender that overlap: a second send arrives while the       *)
(* first is suspended at the delivery of a receipt.  The transport         *)
(* delivers.                                                               *)
(***************************************************************************)
RaceTasks == 2
RaceMaxTx == 2
RaceSends == {<<"a@x", r, JNum(v)>> : r \in {"b@x", "c@x"}, v \in {1, 2}}
RaceBound == Within(RaceTasks, 4 + 2 * RaceMaxTx, 1 + RaceMaxTx, 0)

NextRace ==
    \/ \E q \in RaceSends : SendMoney(q[1], q[2], q[3]) /\ RaceBound'
    \/ \E i \in TaskIds : MailerOk(i)

SpecRace == Funded /\ [][NextRace]_vars

(***************************************************************************)
(* The routes behind the access token, called with and without a token.    *)
(***************************************************************************)
GateTasks == 1
GateMaxTx == 1
GateMaxTicks == 1
GateTokens == {NoToken, BadToken, TokenOf("a@x"), TokenOf("b@x")}
GateBound == Within(GateTasks, 5 + 2 * GateMaxTx, 1 + GateMaxTx, GateMaxTicks * BackoffUnitMs)

NextGate ==
    \/ \E t \in GateTokens, r \in {"b@x", "c@x"} : PostSend(t, r, JNum(1)) /\ GateBound'
    \/ \E t \in GateTokens : GetHistoryRoute(t)
    \/ \E t \in GateTokens : GetEmailStats(t)
    \/ \E i \in TaskIds : MailerOk(i)
    \/ Tick(BackoffUnitMs) /\ GateBound'

SpecGate == Funded /\ [][NextGate]_vars

(***************************************************************************)
(* The delivery pipeline on its own, from the empty system: direct calls   *)
(* of sendEmailWithRetry with every maxRetries, a transport that may fail, *)
(* and the manual retry of the admin surface.                              *)
(***************************************************************************)
PipeTasks == 1
PipeMaxEmails == 2

\* the values of maxRetries of a direct call, the default included
RetryLimits == 1..DefaultMaxRetries

TestMsg == [to |-> "a@x", kind |-> "test", data |-> ""]

PipeBound == Within(PipeTasks, PipeMaxEmails, 0,
                    PipeMaxEmails * (2 ^ DefaultMaxRetries) * BackoffUnitMs)

NextPipeline ==
    \/ \E k \in RetryLimits : SendEmailWithRetry(TestMsg, "test", k) /\ PipeBound'
    \/ \E id \in 1..PipeMaxEmails : RetryFailedEmail(id) /\ PipeBound'
    \/ \E i \in TaskIds : MailerOk(i)
    \/ \E i \in TaskIds, m \in MailerErrors : MailerFail(i, m)
    \/ \E i \in TaskIds : BackoffElapsed(i)

SpecPipeline == Init /\ [][NextPipeline]_vars

\* the pipeline with its scheduling: a call of sgMail.send returns or throws,
\* and a timer that was set fires
PipelineFairness ==
    \A i \in TaskIds :
        /\ WF_vars(MailerOk(i) \/ \E m \in MailerErrors : MailerFail(i, m))
        /\ WF_vars(BackoffElapsed(i))

SpecPipelineFair == SpecPipeline /\ PipelineFairness

(***************************************************************************)
(* Verification codes, from the empty system: a@x registers, asks for new  *)
(* codes, submits codes, and time passes.  The transport delivers.         *)
(***************************************************************************)
VerifyTasks == 1
VerifyMaxEmails == 4
VerifyMaxTicks == 3

\* the step of the clock: a third of the window of the rate limit
TickMs == HourMs \div 3

VerifyBound == Within(VerifyTasks, VerifyMaxEmails, 0, VerifyMaxTicks * TickMs)

NextVerify ==
    \/ \E n \in RegNames : Register(n, "a@x") /\ VerifyBound'
    \/ \E i \in TaskIds : RegisterHashed(i, "123456")
    \/ ResendVerification("a@x", "123456") /\ VerifyBound'
    \/ \E c \in InputCodes : VerifyEmail("a@x", c) /\ VerifyBound'
    \/ \E i \in TaskIds : MailerOk(i)
    \/ Tick(TickMs) /\ VerifyBound'

SpecVerify == Init /\ [][NextVerify]_vars

(***************************************************************************)
(* The life of a code, from the state Registered: b@x submits codes, asks  *)
(* for new ones, and the clock moves by the lifetime of a code, so that a  *)
(* check can fall exactly on the expiry instant.  The transport delivers.  *)
(***************************************************************************)
ExpiryTasks == 1
ExpiryMaxEmails == 5
ExpiryMaxTicks == 2

ExpiryBound == Within(ExpiryTasks, ExpiryMaxEmails, 0, ExpiryMaxTicks * CodeTtlMs)

NextExpiry ==
    \/ \E c \in GeneratedCodes : ResendVerification("b@x", c) /\ ExpiryBound'
    \/ \E c \in InputCodes : VerifyEmail("b@x", c) /\ ExpiryBound'
    \/ \E i \in TaskIds : MailerOk(i)
    \/ Tick(CodeTtlMs) /\ ExpiryBound'

SpecExpiry == Registered /\ [][NextExpiry]_vars

(***************************************************************************)
(* The transaction book, from the state Funded: sends and requests are     *)
(* stored while the clock moves, and the accounts read their history and   *)
(* single transactions.  The transport delivers.                           *)
(***************************************************************************)
BookTasks == 1
BookMaxTx == 1
BookMaxTicks == 1

\* a@x sends to an account, to an email without one and to itself
BookSends == {<<"a@x", r, JNum(1)>> : r \in Emails}

\* the amounts of a request: more than the requester holds, and the amounts
\* the validation has to tell apart
BookAmounts == {JNum(5), JNum(0), JNum(-1), JStr(<<1>>, TRUE)}

\* the requests: a@x asks an account with every amount and an email without
\* account; an unverified requester, one without account, and no requestee
BookRequests ==
    {<<"a@x", "b@x", a>> : a \in BookAmounts}
        \cup {<<"a@x", "c@x", JNum(5)>>, <<"b@x", "a@x", JNum(5)>>,
              <<"c@x", "a@x", JNum(5)>>, <<"a@x", NoEmail, JNum(5)>>}

BookBound == Within(BookTasks, 5 + 2 * BookMaxTx, 1 + BookMaxTx, BookMaxTicks * BackoffUnitMs)

NextBook ==
    \/ \E q \in BookSends : SendMoney(q[1], q[2], q[3]) /\ BookBound'
    \/ \E q \in BookRequests : RequestMoney(q[1], q[2], q[3]) /\ BookBound'
    \/ \E e \in Emails : GetHistory(e)
    \/ \E id \in 1..(2 + BookMaxTx), e \in Emails : GetTransaction(id, e)
    \/ \E i \in TaskIds : MailerOk(i)
    \/ Tick(BackoffUnitMs) /\ BookBound'

SpecBook == Funded /\ [][NextBook]_vars

(***************************************************************************)
(* Claims about the ledger.                                                *)
(***************************************************************************)
Last(q) == q[Len(q)]

\* a JSON number n with 0 < n <= the balance of the verified account s
Affordable(s, a) ==
    /\ s \in DOMAIN users /\ users[s].verified /\ ~users[s].balance.nan
    /\ a.t = "number" /\ 0 < a.v /\ a.v <= users[s].balance.v

\* the send of a to r by s committed in this step: the transaction with
\* amount a is stored and the receipt of the sender is on its way
Committed(s, r, a) ==
    /\ Len(transactions') = Len(transactions) + 1
    /\ Last(transactions').senderEmail = s
    /\ Last(transactions').recipientEmail = r
    /\ Last(transactions').amount = Num(a.v)
    /\ Last(transactions').status = "completed"
    /\ \E i \in TaskIds : tasks[i].op = "idle" /\ tasks'[i].op = "send"

UnverifiedSend(s, a) ==
    /\ s \in DOMAIN users /\ ~users[s].verified
    /\ a.t = "number" /\ a.v > 0

\* C2: no transfer ever occurs for an unverified sender: a send by an
\* existing account whose verified flag is false (amt > 0) is answered 403
\* EMAIL_NOT_VERIFIED whatever its balance, changes no balance and stores no
\* transaction; and the sender of every transaction that is stored is
\* verified when it is stored.
C2_UnverifiedNeverSends ==
    [][/\ \A s \in Emails, a \in Amounts :
            UnverifiedSend(s, a) =>
                \A r \in Emails :
                    SendMoney(s, r, a) =>
                        /\ resp'.status = 403
                        /\ RespError(resp') = "EMAIL_NOT_VERIFIED"
                        /\ UNCHANGED <<users, transactions, tasks, nextEmailId>>
       /\ Len(transactions') > Len(transactions) =>
            users[Last(transactions').senderEmail].verified]_vars

\* C2 witness: the unverified account b@x holds 1 and its send was answered
\* 403 EMAIL_NOT_VERIFIED
C2_Witness ==
    /\ resp.op = "send" /\ resp.status = 403
    /\ ~users["b@x"].verified
    /\ users["b@x"].balance = Num(1)

\* C3: in every reachable state every account balance is >= 0.
C3_BalancesNonNegative ==
    \A e \in DOMAIN users : JsGe(users[e].balance, Num(0))

\* C4: a send with amt <= 0 is answered with the error of the amount check,
\* whatever the state of the sender, and changes no account, stores no
\* transaction and starts no delivery.
C4_NonPositiveIsInvalidAmount ==
    [][\A s \in Emails, r \in Emails, a \in Amounts :
        (a.t = "number" /\ a.v <= 0 /\ SendMoney(s, r, a)) =>
            /\ resp'.status = 400
            /\ RespError(resp') = "Amount must be greater than 0"
            /\ UNCHANGED <<users, transactions, tasks, nextEmailId, emailLogs,
                           failedEmails>>]_vars


\* a step of the suspended send i: its delivery cycle moved
ReceiptStep(i) == tasks[i].op = "send" /\ tasks'[i] # tasks[i]

\* C5: once a send has committed, no outcome of its receipt deliveries
\* changes a balance or the stored transactions, and when the last receipt
\* has ended, delivered or permanently failed, the send answers 200 with its
\* transaction and no error; a permanent failure shows as a terminal-failure
\* log and an entry of failedEmails under the id of that log.
C5_ReceiptFailureKeepsSend ==
    [][\A i \in TaskIds :
        ReceiptStep(i) =>
            /\ users' = users
            /\ transactions' = transactions
            /\ tasks[i].tx = transactions[tasks[i].tx.id]
            /\ tasks'[i] = Idle =>
                    /\ resp'.op = "send" /\ resp'.status = 200
                    /\ resp'.transaction.id = tasks[i].tx.id
                    /\ "error" \notin DOMAIN resp'
            /\ (tasks[i].d.phase = "sending" /\ IsLastAttempt(tasks[i].d)
                    /\ Len(emailLogs') > Len(emailLogs) /\ ~Last(emailLogs').success) =>
                    /\ tasks'[i] = Idle
                    /\ Last(emailLogs').id = tasks[i].d.logEntry.id
                    /\ Last(emailLogs').id \in DOMAIN failedEmails'
                    /\ Last(emailLogs').id \notin DOMAIN failedEmails]_vars

\* C5 witness: the send of 1 by a@x to the account b@x was answered 200 after
\* the receipt of a@x was delivered and the receipt of b@x failed for good;
\* a@x holds 1 and b@x holds 1
C5_Witness ==
    /\ resp.op = "send" /\ resp.status = 200
    /\ resp.transaction.recipientEmail = "b@x"
    /\ Len(emailLogs) >= 2
    /\ ~Last(emailLogs).success /\ Last(emailLogs).to = "b@x"
    /\ Last(emailLogs).id \in DOMAIN failedEmails
    /\ emailLogs[Len(emailLogs) - 1].success
    /\ users["a@x"].balance = Num(1) /\ users["b@x"].balance = Num(1)
    /\ Last(transactions).recipientEmail = "b@x"


(***************************************************************************)
(* Claims about the delivery pipeline.                                     *)
(***************************************************************************)

\* the ids of the logs of emailLogs
LogIds(logs) == {logs[j].id : j \in 1..Len(logs)}

\* the cycle of the direct call i is at the await of sgMail.send
DirectSending(i) == tasks[i].op = "deliver" /\ tasks[i].d.phase = "sending"

\* C6: for every maxRetries >= 1 and every k < maxRetries, a cycle whose
\* transport failed k times goes on after each of these failures without a
\* terminal log or a failedEmails entry, and when the transport then succeeds
\* it returns success with attempts k + 1, appends exactly one
\* terminal-success log, with k error descriptors, under an id no other log
\* bears, and leaves no failedEmails entry under that id.
C6_SucceedsAfterFailures ==
    [][\A i \in TaskIds :
        /\ \A m \in MailerErrors :
            (DirectSending(i) /\ tasks[i].d.attempt < tasks[i].d.maxRetries
                    /\ MailerFail(i, m)) =>
                /\ tasks'[i].op = "deliver"
                /\ tasks'[i].d.attempt = tasks[i].d.attempt + 1
                /\ Len(tasks'[i].d.logEntry.errors) = tasks[i].d.attempt
                /\ UNCHANGED <<emailLogs, failedEmails>>
        /\ (DirectSending(i) /\ MailerOk(i)) =>
            LET k == Len(tasks[i].d.logEntry.errors)
                id == tasks[i].d.logEntry.id
            IN  /\ k = tasks[i].d.attempt - 1 /\ k < tasks[i].d.maxRetries
                /\ resp' = [op |-> "deliver",
                            returned |-> [success |-> TRUE, emailId |-> id,
                                          attempts |-> k + 1]]
                /\ Len(emailLogs') = Len(emailLogs) + 1
                /\ SubSeq(emailLogs', 1, Len(emailLogs)) = emailLogs
                /\ Last(emailLogs').success
                /\ Last(emailLogs').id = id
                /\ Last(emailLogs').attempts = k + 1
                /\ Len(Last(emailLogs').errors) = k
                /\ id \notin LogIds(emailLogs)
                /\ id \notin DOMAIN failedEmails'
                /\ DOMAIN failedEmails' = DOMAIN failedEmails
                /\ tasks'[i] = Idle]_vars

\* C6 witness: a direct call with maxRetries 3 returned success with attempts
\* 3 after two failures; its terminal-success log holds two error descriptors
\* and failedEmails is empty
C6_Witness ==
    /\ resp.op = "deliver" /\ "returned" \in DOMAIN resp
    /\ resp.returned.attempts = 3
    /\ Last(emailLogs).success
    /\ Last(emailLogs).id = resp.returned.emailId
    /\ Len(Last(emailLogs).errors) = 2
    /\ failedEmails = << >>

\* C7: a cycle whose transport fails on all maxRetries attempts throws the
\* delivery error, appends exactly one terminal-failure log, and creates
\* exactly one failedEmails entry, whose id is the id of that log and which
\* holds a copy of that log with the payload and the type the cycle was called
\* with.
C7_FailsAfterAllAttempts ==
    [][\A i \in TaskIds, m \in MailerErrors :
        (DirectSending(i) /\ tasks[i].d.attempt = tasks[i].d.maxRetries
                /\ MailerFail(i, m)) =>
            LET id == tasks[i].d.logEntry.id
            IN  /\ resp'.op = "deliver" /\ "error" \in DOMAIN resp'
                /\ RespError(resp') = "Failed to send email"
                /\ resp'.error.attempts = tasks[i].d.maxRetries
                /\ Len(emailLogs') = Len(emailLogs) + 1
                /\ SubSeq(emailLogs', 1, Len(emailLogs)) = emailLogs
                /\ ~Last(emailLogs').success
                /\ "failedAt" \in DOMAIN Last(emailLogs')
                /\ Last(emailLogs').id = id
                /\ Last(emailLogs').attempts = tasks[i].d.maxRetries
                /\ Len(Last(emailLogs').errors) = tasks[i].d.maxRetries
                /\ id \notin LogIds(emailLogs)
                /\ id \notin DOMAIN failedEmails
                /\ DOMAIN failedEmails' = DOMAIN failedEmails \cup {id}
                /\ \A e \in DOMAIN failedEmails : failedEmails'[e] = failedEmails[e]
                /\ \A f \in DOMAIN Last(emailLogs') :
                        failedEmails'[id][f] = Last(emailLogs')[f]
                /\ "emailData" \in DOMAIN failedEmails'[id]
                /\ failedEmails'[id].emailData = tasks[i].d.emailData
                /\ failedEmails'[id].type = tasks[i].d.type
                /\ tasks'[i] = Idle]_vars

\* C7 witness: a direct call with maxRetries 3 threw after three failed
\* attempts; the last log is its terminal-failure log and failedEmails holds
\* one entry, under the id of that log, with the payload of the call
C7_Witness ==
    /\ resp.op = "deliver" /\ "error" \in DOMAIN resp
    /\ resp.error.attempts = 3
    /\ ~Last(emailLogs).success
    /\ Len(Last(emailLogs).errors) = 3
    /\ DOMAIN failedEmails = {Last(emailLogs).id}
    /\ failedEmails[Last(emailLogs).id].emailData = TestMsg
    /\ failedEmails[Last(emailLogs).id].type = "test"

\* C8: when the retry of an existing failedEmails entry succeeds, the entry
\* with that id is removed from failedEmails and a terminal-success log with
\* a different id is appended.
C8_RetrySuccessRemovesEntry ==
    [][\A i \in TaskIds :
        (tasks[i].op = "retry" /\ tasks[i].d.phase = "sending" /\ MailerOk(i)) =>
            /\ tasks[i].emailId \notin DOMAIN failedEmails'
            /\ Last(emailLogs').success
            /\ Last(emailLogs').id # tasks[i].emailId]_vars


\* the schedule of C15: the suspension before attempt n
ClaimedDelay(n) == CASE n = 1 -> 0 [] n = 2 -> 2000 [] n = 3 -> 8000 [] OTHER -> -1

\* C15: a cycle makes its first attempt without suspension, and the
\* suspension before attempt n is 2000 ms for n = 2 and 8000 ms for n = 3,
\* counted from the failure of attempt n - 1.
C15_BackoffSchedule ==
    [][\A i \in TaskIds :
        /\ (tasks[i].op = "idle" /\ tasks'[i].op = "deliver") =>
                tasks'[i].d.attempt = 1 /\ tasks'[i].d.phase = "sending"
        /\ (Delivering(i) /\ tasks[i].d.phase = "backoff" /\ BackoffElapsed(i)) =>
                /\ tasks'[i].d.phase = "sending"
                /\ now' - Last(tasks[i].d.logEntry.errors).timestamp =
                        ClaimedDelay(tasks[i].d.attempt)]_vars

\* the cycle with the generated id is in flight
InFlight(id) == \E i \in TaskIds : Delivering(i) /\ tasks[i].d.logEntry.id = id

\* the terminal logs of the cycle with the generated id
TerminalLogs(id) == {j \in 1..Len(emailLogs) : emailLogs[j].id = id}

\* C16: when every call of the transport returns or throws and every timer
\* fires, every started cycle comes to have a terminal log; a cycle never
\* has more than one, has none while it is in flight, and no step ends a
\* cycle other than by appending its terminal log.
C16_CycleTerminates ==
    /\ \A id \in 1..PipeMaxEmails : InFlight(id) ~> (Cardinality(TerminalLogs(id)) = 1)
    /\ [](\A id \in 1..PipeMaxEmails :
            /\ Cardinality(TerminalLogs(id)) <= 1
            /\ InFlight(id) => TerminalLogs(id) = {})
    /\ [][\A id \in 1..PipeMaxEmails :
            (InFlight(id) /\ ~InFlight(id)') =>
                /\ Len(emailLogs') = Len(emailLogs) + 1
                /\ Last(emailLogs').id = id]_vars

\* C16 witness: two cycles were started and both have ended, the first
\* after exhausting three attempts, the second with success at its second
\* attempt; each has its terminal log
C16_Witness ==
    /\ \A i \in TaskIds : tasks[i] = Idle
    /\ Len(emailLogs) = 2
    /\ emailLogs[1].id = 1 /\ ~emailLogs[1].success /\ emailLogs[1].attempts = 3
    /\ emailLogs[2].id = 2 /\ emailLogs[2].success /\ emailLogs[2].attempts = 2

\* the cycle with the generated id is in flight after the step
StillInFlight(id) == \E j \in TaskIds : Delivering(j)' /\ tasks'[j].d.logEntry.id = id

\* the error descriptors are those of the attempts 1..Len(errors), in order
InAttemptOrder(errors) == \A k \in 1..Len(errors) : errors[k].attempt = k

\* C17: a cycle calls the transport once per attempt and at most maxRetries
\* (at most 3) times: while a call is pending the attempt counter is the
\* number of calls made, and every earlier call failed and left exactly one
\* error descriptor with its attempt number, in attempt order; a failed call
\* appends one descriptor, and after the call that succeeds the cycle makes
\* no further call.
C17_OneSendPerAttempt ==
    /\ [](\A i \in TaskIds : Delivering(i) =>
            LET d == tasks[i].d
            IN  /\ d.attempt \in 1..d.maxRetries /\ d.maxRetries <= 3
                /\ d.logEntry.attempts = d.attempt
                /\ Len(d.logEntry.errors) = d.attempt - 1
                /\ InAttemptOrder(d.logEntry.errors))
    /\ [](\A j \in 1..Len(emailLogs) :
            /\ emailLogs[j].attempts <= 3
            /\ InAttemptOrder(emailLogs[j].errors)
            /\ Len(emailLogs[j].errors) =
                    IF emailLogs[j].success THEN emailLogs[j].attempts - 1
                    ELSE emailLogs[j].attempts)
    /\ [][\A i \in TaskIds :
            (Delivering(i) /\ tasks[i].d.phase = "sending") =>
                LET d == tasks[i].d
                    after == IF StillInFlight(d.logEntry.id) THEN tasks'[i].d.logEntry.errors
                             ELSE Last(emailLogs').errors
                IN  /\ MailerOk(i) =>
                        /\ ~StillInFlight(d.logEntry.id)
                        /\ Last(emailLogs').errors = d.logEntry.errors
                    /\ \A m \in MailerErrors : MailerFail(i, m) =>
                        /\ Len(after) = Len(d.logEntry.errors) + 1
                        /\ SubSeq(after, 1, Len(d.logEntry.errors)) = d.logEntry.errors
                        /\ Last(after).attempt = d.attempt
                        /\ StillInFlight(d.logEntry.id) =>
                                /\ tasks'[i].d.phase = "backoff"
                                /\ tasks'[i].d.attempt = d.attempt + 1]_vars

\* C17 witness: the third call of a cycle is pending; the first two failed
\* and left the descriptors of the attempts 1 and 2
C17_Witness ==
    \E i \in TaskIds :
        /\ Delivering(i) /\ tasks[i].d.phase = "sending"
        /\ tasks[i].d.attempt = 3
        /\ Len(tasks[i].d.logEntry.errors) = 2
        /\ tasks[i].d.logEntry.errors[1].attempt = 1
        /\ tasks[i].d.logEntry.errors[2].attempt = 2

\* C18: the retry of an id that has no failedEmails entry fails with the
\* not-found error, starts no delivery cycle, and leaves emailLogs and
\* failedEmails unchanged.
C18_RetryUnknownId ==
    [][\A id \in 1..PipeMaxEmails :
        (id \notin DOMAIN failedEmails /\ RetryFailedEmail(id)) =>
            /\ resp'.op = "retry" /\ resp'.status = 400
            /\ RespError(resp') = "Failed email not found"
            /\ UNCHANGED <<emailLogs, failedEmails, tasks, nextEmailId>>]_vars

\* C18 witness: the retry of an unknown id was answered with the not-found
\* error while failedEmails holds an entry under another id
C18_Witness ==
    /\ resp.op = "retry" /\ RespError(resp) = "Failed email not found"
    /\ DOMAIN failedEmails = {1}
    /\ Len(emailLogs) = 1

(***************************************************************************)
(* Claims about verification codes.                                        *)
(***************************************************************************)

\* the number of codes issued to email after the instant t, counted from the
\* delivery cycles they started: the logs of the ended cycles and the cycles
\* in flight
IssuesSince(email, t) ==
    Cardinality({j \in 1..Len(emailLogs) :
                    /\ emailLogs[j].type = "verification"
                    /\ emailLogs[j].to = email
                    /\ emailLogs[j].timestamp > t})
    + Cardinality({i \in Busy :
                    /\ Delivering(i)
                    /\ tasks[i].d.type = "verification"
                    /\ tasks[i].d.emailData.to = email
                    /\ tasks[i].d.logEntry.timestamp > t})

\* a request for a new code by the unverified account a@x
ResendByUnverified ==
    /\ "a@x" \in DOMAIN users /\ ~users["a@x"].verified
    /\ ResendVerification("a@x", "123456")

\* C9: an issue for an email is admitted, storing the new record and
\* starting its delivery, when fewer than three issues for that email were
\* admitted in the 60 minutes before it, and it fails with the rate-limit
\* error, storing no record and starting no delivery, when three were; so the
\* fourth issue inside a window is refused and, once the window has elapsed
\* since the admitted issues, an issue is admitted again.
C9_IssueRateLimit ==
    [][ResendByUnverified =>
        IF IssuesSince("a@x", now - 3600000) < 3
        THEN /\ verificationCodes' =
                    MapSet(verificationCodes, "a@x",
                           [code |-> "123456", expiresAt |-> now + 600000, attempts |-> 0])
             /\ nextEmailId' = nextEmailId + 1
             /\ IssuesSince("a@x", now - 3600000)' = IssuesSince("a@x", now - 3600000) + 1
             /\ RespError(resp') = ""
        ELSE /\ resp'.op = "resend" /\ resp'.status = 400
             /\ RespError(resp') = "Rate limit exceeded"
             /\ UNCHANGED <<verificationCodes, nextEmailId, tasks, emailLogs, users>>]_vars

\* C9 witness: three codes were issued to a@x at 0 and, the window having
\* elapsed, a fourth issue was admitted at 60 minutes and is being delivered
C9_Witness ==
    /\ now = 3600000
    /\ IssuesSince("a@x", -1) = 4
    /\ IssuesSince("a@x", 0) = 1
    /\ \E i \in TaskIds : tasks[i].op = "resend" /\ tasks[i].d.logEntry.timestamp = 3600000
    /\ verificationCodes["a@x"].expiresAt = 3600000 + 600000

\* a check of the code c against the live, unexpired record of a@x
CheckOfLiveRecord(c) ==
    /\ "a@x" \in DOMAIN users
    /\ "a@x" \in DOMAIN verificationCodes
    /\ now <= verificationCodes["a@x"].expiresAt
    /\ VerifyEmail("a@x", c)

\* C10 as stated: the third check with a wrong value against an issued,
\* unexpired record deletes the record, so that the fourth check finds none.
C10_ThirdWrongCheckDeletes ==
    [][\A c \in InputCodes :
        ("a@x" \in DOMAIN verificationCodes
            /\ verificationCodes["a@x"].attempts = 2
            /\ verificationCodes["a@x"].code # c
            /\ CheckOfLiveRecord(c)) =>
                "a@x" \notin DOMAIN verificationCodes']_vars

\* C10 amended: each of the first three checks with a wrong value fails with
\* InvalidCode and keeps the record, counting the attempt, so that the record
\* is still stored, with counter 3, after the third; the fourth check, even
\* with the correct code, fails with the too-many-attempts error, deletes the
\* record and leaves the account unverified; a check without a record fails
\* with NotFound and changes nothing.
C10_FourthCheckDeletes ==
    [][\A c \in InputCodes :
        /\ ("a@x" \in DOMAIN verificationCodes /\ CheckOfLiveRecord(c)) =>
            LET rec == verificationCodes["a@x"]
            IN  /\ rec.attempts <= 3
                /\ (rec.attempts < 3 /\ rec.code # c) =>
                        /\ RespError(resp') = "InvalidCode"
                        /\ verificationCodes' =
                                [verificationCodes EXCEPT !["a@x"].attempts = rec.attempts + 1]
                        /\ users' = users
                /\ rec.attempts = 3 =>
                        /\ resp'.status = 400
                        /\ RespError(resp') = "TooManyAttempts"
                        /\ "a@x" \notin DOMAIN verificationCodes'
                        /\ users' = users
                        /\ UNCHANGED <<tasks, nextEmailId>>
        /\ ("a@x" \in DOMAIN users /\ "a@x" \notin DOMAIN verificationCodes
                /\ VerifyEmail("a@x", c)) =>
                /\ resp'.status = 400
                /\ RespError(resp') = "NotFound"
                /\ UNCHANGED <<verificationCodes, users, tasks, nextEmailId>>]_vars

\* C10 witness: the check that followed three wrong ones was answered with the
\* too-many-attempts error before the code expired; the record is gone and
\* a@x is not verified
C10_Witness ==
    /\ resp.op = "verify" /\ RespError(resp) = "TooManyAttempts"
    /\ "a@x" \notin DOMAIN verificationCodes
    /\ ~users["a@x"].verified
    /\ now = 0


\* C11: a record expires 10 minutes after its issue; a check made when
\* now > expiry fails with Expired, even when the candidate is the stored
\* code, deletes the record and leaves the account unverified; a check made
\* at now <= expiry is never answered Expired.
C11_ExpiredAfterTtl ==
    [][/\ \A c \in GeneratedCodes :
            ("b@x" \in DOMAIN users /\ ~users["b@x"].verified
                /\ ResendVerification("b@x", c)
                /\ verificationCodes' # verificationCodes) =>
                    verificationCodes'["b@x"].expiresAt = now + 600000
       /\ \A c \in InputCodes :
            ("b@x" \in DOMAIN verificationCodes /\ VerifyEmail("b@x", c)) =>
                IF now > verificationCodes["b@x"].expiresAt
                THEN /\ resp'.op = "verify" /\ resp'.status = 400
                     /\ RespError(resp') = "Expired"
                     /\ "b@x" \notin DOMAIN verificationCodes'
                     /\ ~users'["b@x"].verified
                     /\ UNCHANGED <<users, tasks, nextEmailId>>
                ELSE RespError(resp') # "Expired"]_vars

\* C11 witness: at 20 minutes a check against the code of b@x issued at 0
\* was answered Expired; the record is gone and b@x is not verified
C11_Witness ==
    /\ resp.op = "verify" /\ RespError(resp) = "Expired"
    /\ now = 2 * 600000
    /\ "b@x" \notin DOMAIN verificationCodes
    /\ ~users["b@x"].verified
    /\ rateLimits[RateKey("b@x", "verification")] = <<0>>

\* the check of this step matched: the handler went on to the welcome email
Matched == \E i \in TaskIds : tasks[i].op = "idle" /\ tasks'[i].op = "verify"

\* C12: a code is single-use: the check that matches removes the record, a
\* check for an email without record fails with NotFound and verifies
\* nothing, and a record comes to exist only by a new issue.
C12_SingleUse ==
    [][/\ \A c \in InputCodes :
            ("b@x" \in DOMAIN users /\ VerifyEmail("b@x", c)) =>
                /\ Matched =>
                        /\ "b@x" \in DOMAIN verificationCodes
                        /\ verificationCodes["b@x"].code = c
                        /\ "b@x" \notin DOMAIN verificationCodes'
                /\ "b@x" \notin DOMAIN verificationCodes =>
                        /\ ~Matched
                        /\ resp'.status = 400 /\ RespError(resp') = "NotFound"
                        /\ UNCHANGED <<users, verificationCodes>>
       /\ ("b@x" \notin DOMAIN verificationCodes /\ "b@x" \in DOMAIN verificationCodes') =>
            /\ nextEmailId' = nextEmailId + 1
            /\ \E i \in TaskIds :
                    /\ tasks[i].op \in {"idle", "register"}
                    /\ tasks'[i].op \in {"resend", "register"}
                    /\ tasks'[i].d.type = "verification"
                    /\ tasks'[i].d.emailData.data = verificationCodes'["b@x"].code]_vars

\* C12 witness: b@x was verified by a check that matched, and a later check
\* found no record
C12_Witness ==
    /\ resp.op = "verify" /\ RespError(resp) = "NotFound"
    /\ users["b@x"].verified
    /\ "b@x" \notin DOMAIN verificationCodes
    /\ \E j \in 1..Len(emailLogs) : emailLogs[j].type = "welcome" /\ emailLogs[j].to = "b@x"


(***************************************************************************)
(* Claims about the transaction book.                                      *)
(***************************************************************************)

\* the entries of a history that bear the id
EntriesOf(history, id) == SelectSeq(history, LAMBDA x : x.id = id)

\* the two parties of a stored record
Parties(t) ==
    IF "senderEmail" \in DOMAIN t THEN {t.senderEmail, t.recipientEmail}
    ELSE {t.requesterEmail, t.requesteeEmail}

\* C13: for every completed transaction T with sender A and recipient B,
\* A # B, history(A) holds T exactly once, as type sent with counterparty B,
\* and history(B) holds the same T exactly once, as type received with
\* counterparty A, both with the id, amount, note, timestamp and status of T.
C13_HistoryProjection ==
    \A k \in 1..Len(transactions) :
        LET T == transactions[k]
        IN  ("senderEmail" \in DOMAIN T /\ T.status = "completed"
                /\ T.senderEmail # T.recipientEmail) =>
                /\ EntriesOf(History(T.senderEmail), T.id) =
                    << [id |-> T.id, type |-> "sent",
                        name |-> T.recipientName, email |-> T.recipientEmail,
                        amount |-> T.amount, note |-> T.note,
                        timestamp |-> T.timestamp, status |-> T.status] >>
                /\ EntriesOf(History(T.recipientEmail), T.id) =
                    << [id |-> T.id, type |-> "received",
                        name |-> T.senderName, email |-> T.senderEmail,
                        amount |-> T.amount, note |-> T.note,
                        timestamp |-> T.timestamp, status |-> T.status] >>

\* C13 witness: b@x read its history, which shows the send of 1 by a@x at
\* 2000 as received from a@x
C13_Witness ==
    /\ resp.op = "history"
    /\ Len(resp.transactions) = 1
    /\ resp.transactions[1].type = "received"
    /\ resp.transactions[1].email = "a@x"
    /\ resp.transactions[1].amount = Num(1)
    /\ resp.transactions[1].timestamp = 2000
    /\ Len(transactions) = 2 /\ transactions[2].recipientEmail = "b@x"

\* C14: get answers 404 for an unknown id and 403, without any field of the
\* record, when the user is not one of the two parties of the record; and
\* every record that history or get shows a user has that user as a party.
C14_OnlyPartiesRead ==
    \A e \in Emails :
        /\ \A k \in 1..Len(History(e)) :
                /\ History(e)[k].id \in 1..Len(transactions)
                /\ e \in Parties(transactions[History(e)[k].id])
        /\ \A id \in 1..(Len(transactions) + 1) :
            LET r == TransactionDetails(id, e)
            IN  /\ id > Len(transactions) =>
                    r.status = 404 /\ RespError(r) = "Transaction not found"
                /\ (id <= Len(transactions) /\ e \notin Parties(transactions[id])) =>
                    /\ r.status = 403 /\ RespError(r) = "Access denied"
                    /\ "transaction" \notin DOMAIN r
                /\ (id <= Len(transactions) /\ r.status = 200) =>
                    /\ e \in Parties(transactions[id])
                    /\ r.transaction.id = id

\* C14 witness: two records are stored, one of them a request, and a get
\* was answered 403 Access denied
C14_Witness ==
    /\ resp.op = "get" /\ resp.status = 403
    /\ RespError(resp) = "Access denied"
    /\ Len(transactions) = 2
    /\ transactions[2].status = "pending"

\* C20: a request is refused exactly when the checks of send that precede
\* the balance check refuse it, with the same status; it is never refused for
\* the balance; it leaves every account unchanged and starts no delivery; when
\* it is accepted it stores one record with status pending and the parsed
\* amount; and no step changes a stored pending record.
C20_RequestStoresPending ==
    [][/\ \A q \in BookRequests :
            RequestMoney(q[1], q[2], q[3]) =>
                LET asSend == SendReject(q[1], q[2], q[3])
                IN  /\ UNCHANGED <<users, tasks, nextEmailId, emailLogs>>
                    /\ IF asSend = NoResp \/ RespError(asSend) = "Insufficient funds"
                       THEN /\ resp'.op = "request" /\ resp'.status = 200
                            /\ resp'.request.status = "pending"
                            /\ Len(transactions') = Len(transactions) + 1
                            /\ SubSeq(transactions', 1, Len(transactions)) = transactions
                            /\ Last(transactions').status = "pending"
                            /\ Last(transactions').requesterEmail = q[1]
                            /\ Last(transactions').requesteeEmail = q[2]
                            /\ Last(transactions').amount = ParseFloat(q[3])
                            /\ Last(transactions').id = resp'.request.id
                       ELSE /\ resp'.op = "request" /\ resp'.status = asSend.status
                            /\ transactions' = transactions
       /\ \A k \in 1..Len(transactions) :
            transactions[k].status = "pending" =>
                k <= Len(transactions') /\ transactions'[k] = transactions[k]]_vars

\* C20 witness: a@x, which holds less than 5, asked b@x for 5; the request
\* is stored as pending and was answered 200
C20_Witness ==
    /\ resp.op = "request" /\ resp.status = 200
    /\ Last(transactions).status = "pending"
    /\ Last(transactions).requesteeEmail = "b@x"
    /\ Last(transactions).amount = Num(5)
    /\ JsLt(users["a@x"].balance, Num(5))

(***************************************************************************)
(* Claims about accounts.                                                  *)
(***************************************************************************)
\* C19: the verified flag of an account is monotone: a step that stores an
\* account that did not exist stores it unverified, the flag becomes true
\* only by a check that matches the live code of the account, and an
\* account that is verified stays stored and verified.
C19_VerifiedMonotone ==
    [][\A e \in Emails :
        /\ (e \notin DOMAIN users /\ e \in DOMAIN users') => ~users'[e].verified
        /\ (e \in DOMAIN users /\ ~users[e].verified /\ e \in DOMAIN users' /\ users'[e].verified) =>
                /\ e \in DOMAIN verificationCodes
                /\ \E c \in InputCodes :
                        VerifyOutcome(e, c) = "ok" /\ VerifyEmail(e, c)
        /\ (e \in DOMAIN users /\ users[e].verified) =>
                e \in DOMAIN users' /\ users'[e].verified]_vars

(***************************************************************************)
(* Further claims about the ledger.                                        *)
(***************************************************************************)
\* C21: every stored pending request is readable by both of its parties:
\* the history of the requester and the history of the requestee each hold
\* it with status pending, and get on its id answers 200 to each of them.
C21_RequestReadable ==
    \A k \in 1..Len(transactions) :
        LET T == transactions[k]
        IN  T.status = "pending" =>
                \A e \in {T.requesterEmail, T.requesteeEmail} :
                    /\ \E j \in 1..Len(History(e)) :
                            History(e)[j].id = T.id /\ History(e)[j].status = "pending"
                    /\ TransactionDetails(T.id, e).status = 200

C23_CheckThenSuspend ==
    [][\A q \in RaceSends :
        (SendReject(q[1], q[2], q[3]) = NoResp /\ SendMoney(q[1], q[2], q[3])) =>
            users'[q[1]].balance = users[q[1]].balance]_vars

\* C23: no suspension point lies between the balance check of a send and
\* its debit: the step that passes the check debits, every send is checked
\* against the balance left by the sends committed before it, also while
\* those are suspended at their receipts, and sends of numeric amounts never
\* make the balance of the sender negative.
C23_CheckAndDebitOneStep ==
    /\ [](JsGe(users["a@x"].balance, Num(0)))
    /\ [][\A q \in RaceSends :
            SendMoney(q[1], q[2], q[3]) =>
                IF q[3].v <= users[q[1]].balance.v
                THEN /\ Committed(q[1], q[2], q[3])
                     /\ users'[q[1]].balance = Num(users[q[1]].balance.v - q[3].v)
                ELSE /\ RespError(resp') = "Insufficient funds"
                     /\ UNCHANGED <<users, transactions, tasks>>]_vars

\* C23 witness: a@x held 2; its send of 1 is suspended at a receipt, and a
\* second send, of 2, was refused for insufficient funds
C23_Witness ==
    /\ resp.op = "send" /\ RespError(resp) = "Insufficient funds"
    /\ \E i \in TaskIds : tasks[i].op = "send"
    /\ Len(transactions) = 2
    /\ users["a@x"].balance = Num(1)

\* the sum of the amounts of the transactions stored after the k-th, up to
\* the j-th, whose field f is the email s
RECURSIVE LaterSum(_, _, _, _)
LaterSum(k, j, f, s) ==
    IF j <= k THEN 0
    ELSE (IF Field(transactions[j], f) = s THEN transactions[j].amount.v ELSE 0)
            + LaterSum(k, j - 1, f, s)

\* the balance the sender of the stored send tx had when that send had
\* debited it: the balance of now with the later transactions undone
PostTransferBalance(tx) ==
    LET s == tx.senderEmail
        n == Len(transactions)
    IN  Num(users[s].balance.v + LaterSum(tx.id, n, "senderEmail", s)
                               - LaterSum(tx.id, n, "recipientEmail", s))

\* C26: the newBalance a committed send answers with is the balance of the
\* sender right after that send's own debit, b - amt, also when other sends
\* of the sender were committed while its receipts were being delivered.
C26_ReturnsOwnPostBalance ==
    [][\A i \in TaskIds :
        (tasks[i].op = "send" /\ tasks'[i].op = "idle") =>
            /\ resp'.op = "send" /\ resp'.status = 200
            /\ resp'.newBalance = PostTransferBalance(tasks[i].tx)]_vars

\* the error C24 expects of a send of the JSON number a by s: that of the
\* first failure condition that applies, "" when none does
FirstFailure(s, a) ==
    CASE a.v <= 0 -> "Amount must be greater than 0"
      [] s \notin DOMAIN users -> "Sender not found"
      [] ~users[s].verified -> "EMAIL_NOT_VERIFIED"
      [] JsLt(users[s].balance, Num(a.v)) -> "Insufficient funds"
      [] OTHER -> ""

\* C24: send tests its failure conditions in the order InvalidAmount,
\* AccountNotFound, EmailNotVerified, InsufficientFunds and reports the
\* first that applies; a send that fails with one of them changes no
\* balance, no stored transaction, no log and no failedEmails entry and
\* starts no delivery.
C24_FailureOrder ==
    [][\A s \in Emails, r \in Emails, a \in Amounts :
        (a.t = "number" /\ FirstFailure(s, a) # "" /\ SendMoney(s, r, a)) =>
            /\ RespError(resp') = FirstFailure(s, a)
            /\ UNCHANGED <<users, transactions, emailLogs, failedEmails, tasks,
                           nextEmailId>>]_vars

\* C25: every committed send to an account starts two delivery cycles, the
\* receipt of the sender and the receipt of the recipient, and the second
\* runs whatever the outcome of the first: when the cycle of the sender's
\* receipt ends, delivered or permanently failed, the cycle of the
\* recipient's receipt is started; a send to an email without account
\* starts the sender's receipt only.
C25_BothReceiptsRun ==
    [][\A i \in TaskIds :
        (/\ tasks[i].op = "send" /\ tasks[i].stage = "sender"
         /\ ~StillInFlight(tasks[i].d.logEntry.id)) =>
            IF tasks[i].hasRecipient
            THEN /\ tasks'[i].op = "send" /\ tasks'[i].stage = "recipient"
                 /\ tasks'[i].d.emailData.to = tasks[i].tx.recipientEmail
                 /\ tasks'[i].d.attempt = 1
            ELSE tasks'[i].op = "idle"]_vars

(***************************************************************************)
(* Further claims about verification codes.                                *)
(***************************************************************************)
\* the cycles in flight that deliver a code to email
CodeCycles(email) ==
    {i \in Busy : Delivering(i) /\ tasks[i].d.type = "verification"
                    /\ tasks[i].d.emailData.to = email}

\* the ids of the ended cycles that delivered a code to email
CodeLogIds(email) ==
    {emailLogs[j].id : j \in {k \in 1..Len(emailLogs) :
        emailLogs[k].type = "verification" /\ emailLogs[k].to = email}}

\* the delivery of the most recently issued code of email is task i: its
\* cycle has the greatest id of all the cycles that carried a code to email
DeliversLatestCode(i, email) ==
    /\ i \in CodeCycles(email)
    /\ \A j \in CodeCycles(email) : tasks[j].d.logEntry.id <= tasks[i].d.logEntry.id
    /\ \A id \in CodeLogIds(email) : id < tasks[i].d.logEntry.id

\* C27: an email has at most one record, and an admitted issue replaces it
\* in place: the new record has the new code, attempt counter 0 and expiry
\* now + 10 minutes whatever record was there; the end of a delivery, in
\* whatever order, changes no record; a check matches only the code of the
\* stored record, so after a re-issue with another code the previous code is
\* refused; and while the delivery of the most recent issue is pending, the
\* stored record, if any, holds the code of that issue.
C27_ReissueReplaces ==
    /\ [](\A i \in TaskIds :
            (DeliversLatestCode(i, "b@x") /\ "b@x" \in DOMAIN verificationCodes) =>
                verificationCodes["b@x"].code = tasks[i].d.emailData.data)
    /\ [][/\ \A c \in GeneratedCodes :
                (ResendVerification("b@x", c) /\ RespError(resp') = "") =>
                    /\ verificationCodes'["b@x"] =
                            [code |-> c, expiresAt |-> now + 600000, attempts |-> 0]
                    /\ \A old \in InputCodes \ {c} :
                            VerifyOutcome("b@x", old)' \notin {"ok"}
          /\ (\E i \in TaskIds : MailerOk(i)) => UNCHANGED verificationCodes
          /\ \A c \in InputCodes :
                (VerifyEmail("b@x", c) /\ Matched) =>
                    verificationCodes["b@x"].code = c]_vars

\* C27 witness: a second code was issued to b@x while the delivery of a
\* re-issued first code was pending; both deliveries are in flight, the
\* record holds the second code with counter 1, because a check with the
\* first code was refused as invalid
C27_Witness ==
    /\ Cardinality(CodeCycles("b@x")) = 2
    /\ resp.op = "verify" /\ RespError(resp) = "InvalidCode"
    /\ verificationCodes["b@x"].code = "654321"
    /\ verificationCodes["b@x"].attempts = 1
    /\ \E i \in CodeCycles("b@x") : tasks[i].d.emailData.data = "123456"

\* how C28 expects a check of c against the records to end: the conditions
\* are tested in the order NotFound, Expired, AttemptsExhausted, comparison
ExpectedCheck(email, c) ==
    IF email \notin DOMAIN verificationCodes THEN "NotFound"
    ELSE IF now > verificationCodes[email].expiresAt THEN "Expired"
    ELSE IF verificationCodes[email].attempts = 3 THEN "TooManyAttempts"
    ELSE IF verificationCodes[email].code # c THEN "InvalidCode"
    ELSE "ok"

\* C28: the attempt counter of a stored record is in 0..3; a check ends as
\* the first of NotFound, Expired, AttemptsExhausted, InvalidCode that
\* applies; the counter changes only by +1, on the check that compared and
\* mismatched, which is never made against a counter of 3; NotFound changes
\* nothing, and Expired, AttemptsExhausted and a match delete the record.
C28_AttemptCounter ==
    /\ [](\A e \in DOMAIN verificationCodes : verificationCodes[e].attempts \in 0..3)
    /\ [][/\ \A c \in InputCodes :
                ("b@x" \in DOMAIN users /\ VerifyEmail("b@x", c)) =>
                    LET expected == ExpectedCheck("b@x", c)
                    IN  /\ expected # "ok" => RespError(resp') = expected /\ ~Matched
                        /\ expected = "ok" => Matched
                        /\ expected = "NotFound" => UNCHANGED verificationCodes
                        /\ expected \in {"Expired", "TooManyAttempts", "ok"} =>
                                "b@x" \notin DOMAIN verificationCodes'
                        /\ expected = "InvalidCode" =>
                                /\ verificationCodes["b@x"].attempts < 3
                                /\ verificationCodes' = [verificationCodes EXCEPT
                                        !["b@x"].attempts = verificationCodes["b@x"].attempts + 1]
          /\ \A e \in DOMAIN verificationCodes \cap DOMAIN verificationCodes' :
                verificationCodes'[e].attempts # verificationCodes[e].attempts =>
                    \/ /\ verificationCodes'[e].attempts = verificationCodes[e].attempts + 1
                       /\ RespError(resp') = "InvalidCode"
                    \/ /\ verificationCodes'[e].attempts = 0
                       /\ \E c \in GeneratedCodes : ResendVerification(e, c)]_vars

\* C28 witness: the third check that mismatched was answered InvalidCode and
\* left the record with counter 3, at an instant at which it has not expired
C28_Witness ==
    /\ resp.op = "verify" /\ RespError(resp) = "InvalidCode"
    /\ "b@x" \in DOMAIN verificationCodes
    /\ verificationCodes["b@x"].attempts = 3
    /\ now <= verificationCodes["b@x"].expiresAt

\* C29: a check that matched answers its caller with success and leaves
\* the account verified also when the welcome email it sends ends in a
\* permanent failure; the failure shows in emailLogs and failedEmails only.
C29_WelcomeFailureNotPropagated ==
    [][\A i \in TaskIds :
        (tasks[i].op = "verify" /\ tasks'[i].op = "idle") =>
            /\ users'[tasks[i].email].verified
            /\ resp'.op = "verify" /\ resp'.status = 200
            /\ RespError(resp') = ""
            /\ ~Last(emailLogs').success =>
                    Last(emailLogs').id \in DOMAIN failedEmails']_vars

\* a step that runs checkRateLimit for the verification key of a@x: a
\* request for a new code by the unverified account, or the registration
\* that stores the account
RateCheck ==
    \/ ResendByUnverified
    \/ \E i \in TaskIds : RegisterHashed(i, "123456")

\* C30: every check of the rate limit that does not fail records exactly
\* one timestamp, now, for its key; a check that fails with the rate-limit
\* error records none; a key never seen starts empty; and a key never holds
\* more than 3 timestamps.
C30_RateLimiterCounts ==
    /\ [](\A key \in DOMAIN rateLimits :
            /\ Len(rateLimits[key]) <= 3
            /\ \A k \in 1..Len(rateLimits[key]) : rateLimits[key][k] <= now)
    /\ [][LET key == RateKey("a@x", "verification")
              seen == IF key \in DOMAIN rateLimits THEN rateLimits[key] ELSE << >>
              recent == SelectSeq(seen, LAMBDA t : t > now - 3600000)
          IN  /\ RateCheck =>
                    IF RespError(resp') = "Rate limit exceeded"
                    THEN Len(recent) = 3 /\ rateLimits'[key] = recent
                    ELSE Len(recent) < 3 /\ rateLimits'[key] = Append(recent, now)
              /\ rateLimits' # rateLimits => RateCheck]_vars

\* C30 witness: the key of a@x holds the timestamps of the three issues
\* admitted at 0, 0 and 20 minutes, and the check made at 40 minutes was
\* refused and recorded nothing
C30_Witness ==
    /\ resp.op = "resend" /\ RespError(resp) = "Rate limit exceeded"
    /\ now = 2 * 1200000
    /\ rateLimits[RateKey("a@x", "verification")] = <<0, 0, 1200000>>

\* C31 as stated: in every reachable state every timestamp retained for a
\* key of the rate limit lies within the trailing window, t > now - 60 min.
C31_TimestampsInWindow ==
    \A key \in DOMAIN rateLimits :
        \A k \in 1..Len(rateLimits[key]) : rateLimits[key][k] > now - 3600000

\* C31 amended: a check of a key discards the timestamps of the key that
\* have left the window before it counts, so right after every check of a
\* key, admitted or refused, every timestamp retained for the key satisfies
\* t > now - 60 min and every timestamp of the key that did is retained;
\* between checks the stored timestamps stay as they are while the clock
\* advances.
C31_PrunedAtCheck ==
    [][LET key == RateKey("b@x", "verification")
       IN  /\ \A c \in GeneratedCodes :
                (~users["b@x"].verified /\ ResendVerification("b@x", c)) =>
                    /\ \A k \in 1..Len(rateLimits'[key]) :
                            rateLimits'[key][k] > now - 3600000
                    /\ \A k \in 1..Len(rateLimits[key]) :
                            rateLimits[key][k] > now - 3600000 =>
                                \E j \in 1..Len(rateLimits'[key]) :
                                    rateLimits'[key][j] = rateLimits[key][k]
           /\ now' # now => rateLimits' = rateLimits]_vars

\* C31 witness: a check made one window after the issue at 0 discarded that
\* timestamp and recorded its own
C31_Witness ==
    /\ now = 3600000
    /\ rateLimits[RateKey("b@x", "verification")] = <<3600000>>

(***************************************************************************)
(* Further claims about the delivery pipeline and the admin surface.       *)
(***************************************************************************)
\* C32: the log store is append-only and the admin reads change no state:
\* every step keeps the logs it found, in their order, at the front of the
\* log store, and the statistics read leaves emailLogs and failedEmails
\* unchanged.
C32_LogsAppendOnly ==
    [][/\ Len(emailLogs') >= Len(emailLogs)
       /\ SubSeq(emailLogs', 1, Len(emailLogs)) = emailLogs
       /\ (\E t \in GateTokens : GetEmailStats(t)) =>
                UNCHANGED <<emailLogs, failedEmails>>]_vars

(***************************************************************************)
(* Claims about the balances.                                              *)
(***************************************************************************)
\* the sum of the balances of the accounts
RECURSIVE SumOver(_, _)
SumOver(accounts, emails) ==
    IF emails = {} THEN 0
    ELSE LET e == CHOOSE x \in emails : TRUE
         IN  accounts[e].balance.v + SumOver(accounts, emails \ {e})

TotalBalance(accounts) == SumOver(accounts, DOMAIN accounts)

\* C33: the sum of all balances never increases: a committed send to an
\* account, the sender included, leaves it unchanged, a committed send to an
\* email without account lowers it by the amount, and a step that commits no
\* send changes no balance.
C33_SumNeverIncreases ==
    [][/\ TotalBalance(users') <= TotalBalance(users)
       /\ Len(transactions') > Len(transactions) =>
            IF Last(transactions').recipientEmail \in DOMAIN users
            THEN TotalBalance(users') = TotalBalance(users)
            ELSE TotalBalance(users') = TotalBalance(users) - Last(transactions').amount.v
       /\ Len(transactions') = Len(transactions) =>
            \A e \in DOMAIN users : users'[e].balance = users[e].balance]_vars

\* C34: from the empty system, with numeric amounts, every balance is 0 in
\* every reachable state; every send of an amount > 0 by a verified sender
\* fails with the insufficient-funds error, and no transaction with status
\* completed is ever stored.
C34_NoMoneyFromEmpty ==
    /\ [](\A e \in DOMAIN users : users[e].balance = Num(0))
    /\ [](\A k \in 1..Len(transactions) : transactions[k].status # "completed")
    /\ [][\A s \in Emails, r \in Emails, a \in EmptyAmounts :
            (/\ s \in DOMAIN users /\ users[s].verified /\ a.v > 0
             /\ SendMoney(s, r, a)) =>
                /\ resp'.status = 400 /\ RespError(resp') = "Insufficient funds"
                /\ UNCHANGED <<users, transactions, tasks>>]_vars

\* C34 witness: a@x is verified, a request of a@x is stored as pending, and
\* a send of a@x was refused for insufficient funds
C34_Witness ==
    /\ resp.op = "send" /\ RespError(resp) = "Insufficient funds"
    /\ "a@x" \in DOMAIN users /\ users["a@x"].verified
    /\ users["a@x"].balance = Num(0)
    /\ Len(transactions) = 1 /\ transactions[1].status = "pending"

(***************************************************************************)
(* Further claims about accounts.                                          *)
(***************************************************************************)
\* C35: a register call that ends in an error leaves the account store as
\* it was before the call: a call refused for a missing field or a duplicate
\* email changes no account, and when the issue of the code fails, by the
\* rate limit or by a delivery that failed permanently, the email has no
\* account afterwards, so that it can be registered again.
C35_FailedRegisterStoresNothing ==
    [][/\ \A n \in RegNames, e \in Emails \cup {NoEmail} :
            (Register(n, e) /\ RespError(resp') # "") => UNCHANGED users
       /\ \A i \in TaskIds :
            (tasks[i].op = "register" /\ tasks'[i].op = "idle"
                /\ resp'.status # 201) =>
                    tasks[i].email \notin DOMAIN users']_vars

\* C36: when the cycle of a retry(id) fails on every attempt, the entry of
\* id stays as it is and exactly one entry is added, under the id of the new
\* cycle, with the payload and the type of the entry of id; the retry is
\* answered with the retry-failed error.
C36_FailedRetryAddsEntry ==
    [][\A i \in TaskIds :
        (tasks[i].op = "retry" /\ tasks'[i].op = "idle"
            /\ \E m \in MailerErrors : MailerFail(i, m)) =>
            LET old == tasks[i].emailId
                new == tasks[i].d.logEntry.id
            IN  /\ new # old
                /\ old \in DOMAIN failedEmails /\ new \notin DOMAIN failedEmails
                /\ DOMAIN failedEmails' = DOMAIN failedEmails \cup {new}
                /\ \A e \in DOMAIN failedEmails : failedEmails'[e] = failedEmails[e]
                /\ failedEmails'[new].id = new
                /\ failedEmails'[new].emailData = failedEmails[old].emailData
                /\ failedEmails'[new].type = failedEmails[old].type
                /\ failedEmails'[new].attempts = 3
                /\ resp'.op = "retry" /\ resp'.status = 400
                /\ RespError(resp') = "Retry failed"]_vars

\* C36 witness: the retry of the entry 1 failed on its three attempts; the
\* entries 1 and 2 are stored with the same payload
C36_Witness ==
    /\ resp.op = "retry" /\ RespError(resp) = "Retry failed"
    /\ DOMAIN failedEmails = {1, 2}
    /\ failedEmails[2].emailData = failedEmails[1].emailData
    /\ Len(emailLogs) = 2 /\ ~emailLogs[2].success /\ emailLogs[2].attempts = 3

(***************************************************************************)
(* The order of commit and notification.                                   *)
(***************************************************************************)
\* the receipt payload p refers to a stored, completed transaction
RefersToCommitted(p) ==
    \E j \in 1..Len(transactions) :
        /\ transactions[j].id = p.data.id
        /\ transactions[j].amount = p.data.amount
        /\ Field(transactions[j], "status") = "completed"
        /\ p.to \in {Field(transactions[j], "senderEmail"),
                     Field(transactions[j], "recipientEmail")}

\* C37: a receipt is handed to the transport only after the send is
\* committed: every receipt payload of a cycle in flight or of a stored
\* failed delivery refers to a transaction in the store with status
\* completed, and the step that starts the sender's receipt is the step that
\* debits the sender, credits the recipient (if it has an account) and
\* stores the transaction.
C37_CommitPrecedesReceipt ==
    /\ [](\A i \in TaskIds :
            (Delivering(i) /\ tasks[i].d.type = "receipt") =>
                RefersToCommitted(tasks[i].d.emailData))
    /\ [](\A e \in DOMAIN failedEmails :
            failedEmails[e].type = "receipt" => RefersToCommitted(failedEmails[e].emailData))
    /\ [][\A i \in TaskIds :
            (tasks[i].op = "idle" /\ tasks'[i].op = "send") =>
                LET tx == tasks'[i].tx
                IN  /\ transactions' = Append(transactions, tx)
                    /\ tx.status = "completed"
                    /\ tasks'[i].d.emailData.data.id = tx.id
                    /\ users'[tx.senderEmail].balance =
                            JsSub(users[tx.senderEmail].balance, tx.amount)
                    /\ tx.recipientEmail \in DOMAIN users =>
                        users'[tx.recipientEmail].balance =
                            JsAdd(users[tx.recipientEmail].balance, tx.amount)]_vars

\* C37 witness: the receipt of the send 2 of a@x to b@x is with the
\* transport and the transaction 2 is stored, a@x debited and b@x credited
C37_Witness ==
    \E i \in TaskIds :
        /\ tasks[i].op = "send" /\ tasks[i].stage = "sender"
        /\ tasks[i].d.phase = "sending" /\ tasks[i].d.emailData.data.id = 2
        /\ Len(transactions) = 2 /\ transactions[2].status = "completed"
        /\ users["a@x"].balance = Num(1) /\ users["b@x"].balance = Num(1)

(***************************************************************************)
(* What history shows as received, against the balances.                   *)
(***************************************************************************)
\* the sum of the amounts of the completed entries of the history h whose
\* type is type
RECURSIVE HistorySum(_, _)
HistorySum(h, type) ==
    IF h = << >> THEN 0
    ELSE (IF Head(h).type = type /\ Head(h).status = "completed"
          THEN Head(h).amount.v ELSE 0) + HistorySum(Tail(h), type)

\* C38: every transaction that history(B) shows as received and completed
\* was credited to B when it was created: as an account opens with 0 and
\* only a send debits or credits it, the balance of every account B is the
\* sum of what history(B) shows as received less the sum of what it shows
\* as sent, also when B was registered after a send to its email.
C38_ReceivedWereCredited ==
    \A B \in DOMAIN users :
        users[B].balance =
            Num(HistorySum(History(B), "received") - HistorySum(History(B), "sent"))

(***************************************************************************)
(* The log store and the store of failed deliveries.                       *)
(***************************************************************************)
\* the log l is that of a cycle that ended, with its error descriptors
WellFormedLog(l) ==
    /\ l.attempts \in 1..DefaultMaxRetries
    /\ InAttemptOrder(l.errors)
    /\ IF l.success
       THEN /\ "completedAt" \in DOMAIN l /\ "failedAt" \notin DOMAIN l
            /\ Len(l.errors) = l.attempts - 1
       ELSE /\ "failedAt" \in DOMAIN l /\ "completedAt" \notin DOMAIN l
            /\ Len(l.errors) = l.attempts

\* the entry stored under e is its failure log with the payload
MirrorsFailureLog(e) ==
    LET logs == TerminalLogs(e)
        entry == failedEmails[e]
    IN  /\ entry.id = e
        /\ Cardinality(logs) = 1
        /\ \A j \in logs :
                /\ ~emailLogs[j].success
                /\ [f \in DOMAIN emailLogs[j] |-> entry[f]] = emailLogs[j]

\* C39: every log in emailLogs is that of a cycle that ended and is well
\* formed: a success log has 1 <= attempts <= maxRetries and attempts - 1
\* error descriptors, a failure log has attempts = maxRetries and as many
\* error descriptors, numbered 1..maxRetries in order; every failedEmails
\* entry is stored under its id, which is the id of exactly one log, a
\* failure log.
C39_LogsWellFormed ==
    /\ [](\A j \in 1..Len(emailLogs) : WellFormedLog(emailLogs[j]))
    /\ [](\A e \in DOMAIN failedEmails : MirrorsFailureLog(e))
    /\ [][\A i \in TaskIds :
            (Delivering(i) /\ ~StillInFlight(tasks[i].d.logEntry.id)) =>
                LET l == Last(emailLogs')
                IN  /\ l.id = tasks[i].d.logEntry.id
                    /\ l.attempts <= tasks[i].d.maxRetries
                    /\ ~l.success => l.attempts = tasks[i].d.maxRetries]_vars

\* C39 witness: a cycle of two attempts failed and a later cycle succeeded
\* at its third attempt; failedEmails holds the first only
C39_Witness ==
    /\ Len(emailLogs) = 2
    /\ ~emailLogs[1].success /\ emailLogs[1].attempts = 2 /\ Len(emailLogs[1].errors) = 2
    /\ emailLogs[2].success /\ emailLogs[2].attempts = 3 /\ Len(emailLogs[2].errors) = 2
    /\ DOMAIN failedEmails = {emailLogs[1].id}

====
